---- MODULE Spec2Model ----
(***************************************************************************)
(* Verification model of the ambiguity-detection and session-orchestration *)
(* core of document-polishing:                                             *)
(*   scripts/src/ambiguity_detector.py  Interpretation, the comparison     *)
(*                                      strategies, AmbiguityDetector      *)
(*   scripts/src/detection_step.py,                                        *)
(*   scripts/polish.py,                                                    *)
(*   scripts/detect_ambiguities.py      the callers of the detection pass  *)
(*   scripts/src/session_manager.py     SessionManager                     *)
(*   scripts/src/session_handlers.py    the handlers' outcomes             *)
(*   scripts/src/model_interface.py     ModelManager.query                 *)
(*                                                                         *)
(* Python dicts are records with a field "keys" naming the keys that are   *)
(* present; a text is the sequence of its whitespace-separated tokens (the *)
(* token " " is a run of whitespace); a float is an exact rational.        *)
(***************************************************************************)
EXTENDS Integers, Sequences, FiniteSets, TLC

\* ------------------------------------------------------------------------
\* Bounds of the exploration
\* ------------------------------------------------------------------------

\* Largest number of sections in one test_results mapping.
MaxSections == 2

\* Largest configured max_retries.
MaxRetries == 2

\* Largest number of create_session calls on one model's handler.
MaxCreates == 3

\* ------------------------------------------------------------------------
\* Python values
\* ------------------------------------------------------------------------

\* Python's None.
None == "<None>"

\* dict.get(key, default)
Get(d, key, default) == IF key \in d.keys THEN d[key] ELSE default

\* Truthiness of an Optional[str]: None and "" are falsy.
TruthyStr(s) == s # None /\ s # ""

\* Exact rationals n/d, d > 0, in lowest terms (the code computes in floats).
RECURSIVE GCD(_, _)
GCD(a, b) == IF b = 0 THEN a ELSE GCD(b, a % b)

Abs(x) == IF x < 0 THEN -x ELSE x

Rat(n, d) ==
    LET g == GCD(Abs(n), d)
    IN  IF n = 0 THEN [n |-> 0, d |-> 1] ELSE [n |-> n \div g, d |-> d \div g]

RatAdd(a, b) == Rat(a.n * b.d + b.n * a.d, a.d * b.d)
RatLT(a, b) == a.n * b.d < b.n * a.d
RatGE(a, b) == ~RatLT(a, b)
RatDivInt(a, k) == Rat(a.n, a.d * k)

Max2(a, b) == IF a >= b THEN a ELSE b

\* ------------------------------------------------------------------------
\* Model responses (the values of test_results[section_id]['results'])
\* ------------------------------------------------------------------------

\* The models of a run, in the order of the model list.
ModelNames == <<"claude", "gemini", "codex">>

TextEmpty == << >>
TextBlank == <<" ">>
TextA == <<"Create", "3", "entries">>
TextB == <<"Create", "one", "entry", "for", "N">>

\* A response dict: "keys" are the keys present, the other fields their values.
Response(keys, error, message, stderr, interpretation, steps, assumptions, ambiguities) ==
    [keys |-> keys, error |-> error, message |-> message, stderr |-> stderr,
     interpretation |-> interpretation, steps |-> steps,
     assumptions |-> assumptions, ambiguities |-> ambiguities]

ParsedKeys == {"interpretation", "steps", "assumptions", "ambiguities"}

\* {"interpretation": "Create 3 entries", "steps": [], "assumptions": [], "ambiguities": []}
RParsedA == Response(ParsedKeys, FALSE, "", "", TextA, << >>, << >>, << >>)
\* {"interpretation": "Create 3 entries", "steps": [], "assumptions": [a1], "ambiguities": [u1]}
RParsedB == Response(ParsedKeys, FALSE, "", "", TextA, << >>, <<"a1">>, <<"u1">>)
\* {"interpretation": "Create one entry for N", "steps": [s1, s2], "assumptions": [], "ambiguities": []}
RParsedC == Response(ParsedKeys, FALSE, "", "", TextB, <<"s1", "s2">>, << >>, << >>)
\* {"interpretation": "   \n\t  ", "steps": [], "assumptions": [], "ambiguities": []}
RBlank == Response(ParsedKeys, FALSE, "", "", TextBlank, << >>, << >>, << >>)
\* CLIModel.query's raw-text fallback: {"error": False, "raw_response": "..."}
RRaw == Response({"error", "raw_response"}, FALSE, "", "", TextEmpty, << >>, << >>, << >>)
\* CLIModel.query on a timeout: {"error": True, "message": "Timeout after 30s"}
RErrMessage == Response({"error", "message"}, TRUE, "Timeout after 30s", "", TextEmpty, << >>, << >>, << >>)
\* CLIModel.query on a non-zero exit that printed nothing: {"error": True, "stderr": "", "raw_response": ""}
RErrExitSilent == Response({"error", "stderr", "raw_response"}, TRUE, "", "", TextEmpty, << >>, << >>, << >>)

Responses ==
    {RParsedA, RParsedB, RParsedC, RBlank, RRaw, RErrMessage, RErrExitSilent}

\* The results of one section: one response per model of ModelNames.
SectionResults == [1..Len(ModelNames) -> Responses]

\* ------------------------------------------------------------------------
\* Interpretation
\* ------------------------------------------------------------------------

\* The dataclass (raw_response, str(response), is read by nothing and left out).
Interpretation(model_name, interpretation, steps, assumptions, ambiguities, error) ==
    [model_name |-> model_name, interpretation |-> interpretation, steps |-> steps,
     assumptions |-> assumptions, ambiguities |-> ambiguities, error |-> error]

\* Interpretation.from_response
from_response(model_name, response) ==
    IF Get(response, "error", FALSE)
    THEN Interpretation(model_name, TextEmpty, << >>, << >>, << >>,
                        Get(response, "message", Get(response, "stderr", "Unknown error")))
    ELSE Interpretation(model_name,
                        Get(response, "interpretation", TextEmpty),
                        Get(response, "steps", << >>),
                        Get(response, "assumptions", << >>),
                        Get(response, "ambiguities", << >>),
                        None)

\* The filter of AmbiguityDetector.detect: `if not interp.error`.
PassesFilter(interp) == ~TruthyStr(interp.error)

\* The interpretations dict of one section, as the list of its values in
\* insertion order (the order of results.items()).
RECURSIVE ParseFrom(_, _)
ParseFrom(results, i) ==
    IF i > Len(results) THEN << >>
    ELSE LET interp == from_response(ModelNames[i], results[i])
         IN  (IF PassesFilter(interp) THEN <<interp>> ELSE << >>) \o ParseFrom(results, i + 1)

ParseInterpretations(results) == ParseFrom(results, 1)

ModelsOf(interps) == {interps[i].model_name : i \in 1..Len(interps)}

\* ------------------------------------------------------------------------
\* SimpleComparisonStrategy
\* ------------------------------------------------------------------------

stopwords ==
    {"the", "a", "an", "is", "are", "was", "were", "be", "been", "being",
     "have", "has", "had", "do", "does", "did", "will", "would", "could",
     "should", "may", "might", "must", "shall", "can", "need", "to", "of",
     "in", "for", "on", "with", "at", "by", "from", "as", "into", "through",
     "and", "or", "but", "if", "then", "else", "when", "where", "which",
     "that", "this", "these", "those", "it", "its", "i", "you", "we", "they"}

\* What text.lower() and the two regular expressions see of one token: its
\* lower-case form, whether it is letters only, digits only, and its length.
Token(lower, alpha, digit, len) == [lower |-> lower, alpha |-> alpha, digit |-> digit, len |-> len]

TokenInfo(tok) ==
    CASE tok = "Create"  -> Token("create", TRUE, FALSE, 6)
      [] tok = "entries" -> Token("entries", TRUE, FALSE, 7)
      [] tok = "entry"   -> Token("entry", TRUE, FALSE, 5)
      [] tok = "one"     -> Token("one", TRUE, FALSE, 3)
      [] tok = "for"     -> Token("for", TRUE, FALSE, 3)
      [] tok = "N"       -> Token("n", TRUE, FALSE, 1)
      [] tok = "3"       -> Token("3", FALSE, TRUE, 1)
      [] tok = "separate" -> Token("separate", TRUE, FALSE, 8)
      [] tok = "expanded" -> Token("expanded", TRUE, FALSE, 8)
      [] tok = "to"      -> Token("to", TRUE, FALSE, 2)
      [] tok = "cards"   -> Token("cards", TRUE, FALSE, 5)
      [] OTHER           -> Token(tok, FALSE, FALSE, 1)

\* SimpleComparisonStrategy._extract_keywords
_extract_keywords(text) ==
    IF text = << >> THEN {}
    ELSE LET infos == {TokenInfo(text[i]) : i \in 1..Len(text)}
             words == {t.lower : t \in {u \in infos : u.alpha /\ u.len >= 3}}
             numbers == {t.lower : t \in {u \in infos : u.digit}}
         IN  (words \ stopwords) \cup numbers

\* An element that would not record whether the model made assumptions.
ElementWithoutAssumptions(interp) ==
    [model |-> interp.model_name,
     keywords |-> _extract_keywords(interp.interpretation),
     step_count |-> Len(interp.steps),
     has_assumptions |-> FALSE,
     noted_ambiguities |-> Len(interp.ambiguities) > 0]

\* One entry of `elements` in SimpleComparisonStrategy.compare.
Element(interp) ==
    [model |-> interp.model_name,
     keywords |-> _extract_keywords(interp.interpretation),
     step_count |-> Len(interp.steps),
     has_assumptions |-> Len(interp.assumptions) > 0,
     noted_ambiguities |-> Len(interp.ambiguities) > 0]

\* A similarity that would be the keyword overlap alone.
_calculate_similarity_keywords_only(elem1, elem2) ==
    LET kw1 == elem1.keywords
        kw2 == elem2.keywords
        intersection == Cardinality(kw1 \cap kw2)
        union == Cardinality(kw1 \cup kw2)
    IN  IF kw1 = {} /\ kw2 = {} THEN Rat(1, 1)
        ELSE IF kw1 = {} \/ kw2 = {} THEN Rat(0, 1)
        ELSE Rat(intersection, union)

\* A similarity that would weigh keywords and step counts evenly.
_calculate_similarity_even_weights(elem1, elem2) ==
    LET kw1 == elem1.keywords
        kw2 == elem2.keywords
        intersection == Cardinality(kw1 \cap kw2)
        union == Cardinality(kw1 \cup kw2)
        max_steps == Max2(Max2(elem1.step_count, elem2.step_count), 1)
        step_diff == Abs(elem1.step_count - elem2.step_count)
    IN  IF kw1 = {} /\ kw2 = {} THEN Rat(1, 1)
        ELSE IF kw1 = {} \/ kw2 = {} THEN Rat(0, 1)
        ELSE Rat(5 * intersection * max_steps + 5 * (max_steps - step_diff) * union,
                 10 * union * max_steps)

\* SimpleComparisonStrategy._calculate_similarity:
\* 0.7 * |kw1 & kw2| / |kw1 | kw2| + 0.3 * (1 - step_diff / max_steps)
_calculate_similarity(elem1, elem2) ==
    LET kw1 == elem1.keywords
        kw2 == elem2.keywords
        intersection == Cardinality(kw1 \cap kw2)
        union == Cardinality(kw1 \cup kw2)
        max_steps == Max2(Max2(elem1.step_count, elem2.step_count), 1)
        step_diff == Abs(elem1.step_count - elem2.step_count)
    IN  IF kw1 = {} /\ kw2 = {} THEN Rat(1, 1)
        ELSE IF kw1 = {} \/ kw2 = {} THEN Rat(0, 1)
        ELSE Rat(7 * intersection * max_steps + 3 * (max_steps - step_diff) * union,
                 10 * union * max_steps)

\* similarity_threshold: the default of SimpleComparisonStrategy.__init__, and
\* what DetectionStep.detect passes.
similarity_threshold == Rat(7, 10)

\* A comparison result dict; "keys" names the keys that are present. Neither
\* strategy sets the keys shared_ambiguities and shared_concerns.
Comparison(keys, agree, similarity, details, groups, assumptions_made, ambiguities_noted) ==
    [keys |-> keys, agree |-> agree, similarity |-> similarity, details |-> details,
     groups |-> groups, assumptions_made |-> assumptions_made,
     ambiguities_noted |-> ambiguities_noted,
     shared_ambiguities |-> FALSE, shared_concerns |-> << >>]

SimpleKeys == {"agree", "similarity", "details", "groups", "assumptions_made", "ambiguities_noted"}
JudgeDefaultKeys == {"agree", "similarity", "details", "groups"}
JudgeKeys == {"agree", "similarity", "details", "groups", "key_differences"}

\* The model names of a list of elements or interpretations, in order.
ElementModels(elements) == [k \in 1..Len(elements) |-> elements[k].model]
InterpModels(interps) == [k \in 1..Len(interps) |-> interps[k].model_name]

SeqToSet(s) == {s[k] : k \in 1..Len(s)}

\* The greedy loop of SimpleComparisonStrategy._group_by_similarity, from index i.
RECURSIVE GroupFrom(_, _, _, _)
GroupFrom(elements, i, used, groups) ==
    IF i > Len(elements) THEN groups
    ELSE IF elements[i].model \in used THEN GroupFrom(elements, i + 1, used, groups)
    ELSE LET Joins(other) ==
                 /\ other.model \notin used
                 /\ RatGE(_calculate_similarity(elements[i], other), similarity_threshold)
             members == ElementModels(SelectSeq(SubSeq(elements, i + 1, Len(elements)), Joins))
             group == <<elements[i].model>> \o members
         IN  GroupFrom(elements, i + 1, used \cup SeqToSet(group), Append(groups, group))

\* SimpleComparisonStrategy._group_by_similarity
_group_by_similarity(interpretations, elements) ==
    IF Len(interpretations) <= 1 THEN <<InterpModels(interpretations)>>
    ELSE GroupFrom(elements, 1, {}, << >>)

\* The pairwise similarities of compare, in the order (i, j), i < j.
RECURSIVE PairSims(_, _, _)
PairSims(elements, i, j) ==
    IF i >= Len(elements) THEN << >>
    ELSE IF j > Len(elements) THEN PairSims(elements, i + 1, i + 2)
    ELSE <<_calculate_similarity(elements[i], elements[j])>> \o PairSims(elements, i, j + 1)

RECURSIVE RatSum(_)
RatSum(s) == IF s = << >> THEN Rat(0, 1) ELSE RatAdd(s[1], RatSum(Tail(s)))

OnlyOne == Comparison({"agree", "similarity", "details", "groups"}, TRUE, Rat(1, 1),
                      "Only one interpretation", << >>, << >>, << >>)

\* SimpleComparisonStrategy.compare
SimpleCompare(interpretations) ==
    IF Len(interpretations) < 2 THEN OnlyOne
    ELSE LET elements == [k \in 1..Len(interpretations) |-> Element(interpretations[k])]
             similarities == PairSims(elements, 1, 2)
             avg_similarity == IF similarities # << >>
                               THEN RatDivInt(RatSum(similarities), Len(similarities))
                               ELSE Rat(1, 1)
             agree == RatGE(avg_similarity, similarity_threshold)
             groups == _group_by_similarity(interpretations, elements)
             HasAssumptions(e) == e.has_assumptions
             NotedAmbiguities(e) == e.noted_ambiguities
             models_with_assumptions == ElementModels(SelectSeq(elements, HasAssumptions))
             models_noting_ambiguity == ElementModels(SelectSeq(elements, NotedAmbiguities))
         IN  Comparison(SimpleKeys,
                        agree /\ models_with_assumptions = << >>,
                        avg_similarity,
                        IF ~agree \/ models_with_assumptions # << >> \/ models_noting_ambiguity # << >>
                        THEN "details" ELSE "Interpretations agree",
                        groups, models_with_assumptions, models_noting_ambiguity)

\* ------------------------------------------------------------------------
\* LLMJudgeStrategy
\* ------------------------------------------------------------------------

\* A reply of the judge query function. similarity is the value under the key
\* "similarity"; numeric is whether float() accepts it; shared_ambiguities
\* and shared_concerns are the values under these keys when the judge sends
\* them.
JudgeReply(keys, error, message, agree, numeric, similarity) ==
    [keys |-> keys, error |-> error, message |-> message, agree |-> agree,
     numeric |-> numeric, similarity |-> similarity,
     shared_ambiguities |-> FALSE, shared_concerns |-> << >>]

\* {"error": True, "message": "Timeout after 300s"}
JError == JudgeReply({"error", "message"}, TRUE, "Timeout after 300s", FALSE, TRUE, Rat(0, 1))
\* {"similarity": 0.5, "explanation": "incomplete response"}
JMissingAgree == JudgeReply({"similarity", "explanation"}, FALSE, "", FALSE, TRUE, Rat(1, 2))
\* {}
JEmpty == JudgeReply({}, FALSE, "", FALSE, TRUE, Rat(0, 1))
\* {"agree": True, "similarity": 0.9, "explanation": "...", "key_differences": []}
JAgree == JudgeReply({"agree", "similarity", "explanation", "key_differences"}, FALSE, "", TRUE, TRUE, Rat(9, 10))
\* {"agree": False, "similarity": 0.3, "explanation": "...", "key_differences": [...]}
JDisagree == JudgeReply({"agree", "similarity", "explanation", "key_differences"}, FALSE, "", FALSE, TRUE, Rat(3, 10))
\* {"agree": False}
JDisagreeBare == JudgeReply({"agree"}, FALSE, "", FALSE, TRUE, Rat(0, 1))
\* {"agree": False, "similarity": "low"}
JBadSimilarity == JudgeReply({"agree", "similarity"}, FALSE, "", FALSE, FALSE, Rat(0, 1))

JudgeReplies == {JError, JMissingAgree, JEmpty, JAgree, JDisagree, JDisagreeBare, JBadSimilarity}

\* A judge malfunction: an error marker, or no 'agree' field (an empty reply too).
IsErrorFlagged(reply) == Get(reply, "error", FALSE)
IsMalfunction(reply) == IsErrorFlagged(reply) \/ "agree" \notin reply.keys

\* An exception in flight. section_id and reason are the attributes of a
\* judge-failure error; a built-in exception has neither.
Exception(type, section_id, reason) == [type |-> type, section_id |-> section_id, reason |-> reason]
NoException == Exception("", -1, "")

\* What a call of compare does: returns a comparison or raises.
Returned(comparison) == [kind |-> "return", exception |-> NoException, comparison |-> comparison]
Raised(exception) == [kind |-> "raise", exception |-> exception, comparison |-> OnlyOne]

Singletons(interpretations) == [k \in 1..Len(interpretations) |-> <<interpretations[k].model_name>>]

\* LLMJudgeStrategy._parse_judge_response
_parse_judge_response(response, interpretations) ==
    LET default(details) == Comparison(JudgeDefaultKeys, FALSE, Rat(1, 2), details,
                                       Singletons(interpretations), << >>, << >>)
        agree == Get(response, "agree", FALSE)
        groups == IF agree THEN <<InterpModels(interpretations)>>
                  ELSE Singletons(interpretations)
    IN  IF Get(response, "error", FALSE) THEN Returned(default("Judge error"))
        ELSE IF "agree" \notin response.keys THEN Returned(default("Judge response missing 'agree' field"))
        ELSE IF "similarity" \in response.keys /\ ~response.numeric
             THEN Raised(Exception("ValueError", -1, ""))
        ELSE Returned(Comparison(JudgeKeys, agree, Get(response, "similarity", Rat(1, 2)),
                                 "explanation", groups, << >>, << >>))

\* LLMJudgeStrategy.compare, given the reply of query_func(prompt).
JudgeCompare(response, interpretations) ==
    IF Len(interpretations) < 2 THEN Returned(OnlyOne)
    ELSE _parse_judge_response(response, interpretations)

\* ------------------------------------------------------------------------
\* AmbiguityDetector
\* ------------------------------------------------------------------------

severity_order(severity) ==
    CASE severity = "critical" -> 0
      [] severity = "high" -> 1
      [] severity = "medium" -> 2
      [] severity = "low" -> 3

\* A _determine_severity whose bands would end at `<=`.
_determine_severity_inclusive(comparison) ==
    LET similarity == Get(comparison, "similarity", Rat(1, 2))
        groups == Get(comparison, "groups", << >>)
    IN  IF Len(groups) >= 3 THEN "critical"
        ELSE IF ~RatLT(Rat(3, 10), similarity) THEN "critical"
        ELSE IF ~RatLT(Rat(5, 10), similarity) THEN "high"
        ELSE IF ~RatLT(Rat(7, 10), similarity) THEN "medium"
        ELSE "low"

\* AmbiguityDetector._determine_severity
_determine_severity(comparison) ==
    LET similarity == Get(comparison, "similarity", Rat(1, 2))
        groups == Get(comparison, "groups", << >>)
    IN  IF Len(groups) >= 3 THEN "critical"
        ELSE IF RatLT(similarity, Rat(3, 10)) THEN "critical"
        ELSE IF RatLT(similarity, Rat(5, 10)) THEN "high"
        ELSE IF RatLT(similarity, Rat(7, 10)) THEN "medium"
        ELSE "low"

\* list.sort(key=severity_order): a stable insertion sort.
RECURSIVE InsertBySeverity(_, _)
InsertBySeverity(sorted, a) ==
    IF sorted = << >> THEN <<a>>
    ELSE IF severity_order(Head(sorted).severity) <= severity_order(a.severity)
         THEN <<Head(sorted)>> \o InsertBySeverity(Tail(sorted), a)
         ELSE <<a>> \o sorted

\* A detect that would return the list in the order of the sections.
LeftUnsorted(s) == s

RECURSIVE SortBySeverity(_)
SortBySeverity(s) ==
    IF s = << >> THEN << >>
    ELSE InsertBySeverity(SortBySeverity(SubSeq(s, 1, Len(s) - 1)), s[Len(s)])

\* An Ambiguity as `ambiguities` keeps it: models are the keys of its
\* interpretations map, in insertion order.
AmbiguityEntry(section_id, severity, models, reason) ==
    [section_id |-> section_id, severity |-> severity, models |-> models, reason |-> reason]

\* ------------------------------------------------------------------------
\* State
\* ------------------------------------------------------------------------

VARIABLES
    strategy_name,    \* AmbiguityDetector.strategy_name
    caller,           \* who ran the detection pass: "polish" or "detect_ambiguities"
                      \* ("" until it takes the result)
    nSections,        \* len(test_results)
    idx,              \* detect: the sections whose loop iteration has completed
    ambiguities,      \* detect: the list `ambiguities`
    pc,               \* detect: "running" (at the head of the loop), "iterated" (at the
                      \* end of an iteration), "returned" or "raised"
    exc,              \* detect: the exception it raised
    judgeCalls,       \* calls of the judge query function so far
    firstMalfunction, \* the call of the judge that first malfunctioned (0: none)
    last,             \* the loop iteration just executed, while pc = "iterated" or "raised"
    run               \* the caller's outcome

dvars == <<strategy_name, caller, nSections, idx, ambiguities, pc, exc, judgeCalls,
           firstMalfunction, last, run>>

\* The session manager's state.
VARIABLES
    mode,          \* SessionManager.mode
    max_retries,   \* SessionManager.max_retries
    sessions,      \* SessionManager.sessions: model_name -> session_id
    handlers,      \* the keys of SessionManager.handlers
    document,      \* SessionManager._document
    purpose,       \* SessionManager._purpose
    createCalls,   \* calls of create_session per model's handler
    q,             \* the call of query_in_session in progress
    ownerCall      \* the recreate_session or cleanup_sessions call the owner of the
                   \* manager has just made (none after any other step)

\* SessionManager.init_sessions_parallel
VARIABLES
    par,           \* the call of init_sessions_parallel
    workers        \* its workers: model_name -> the worker's init_session

pvars == <<par, workers>>

\* ModelManager
VARIABLES
    mm,            \* the ModelManager: _sessions_enabled, session_manager, models
    mq             \* the call of ModelManager.query in progress

mvars == <<mm, mq>>

\* A comparison strategy called on its own
VARIABLES
    cmp,           \* the call of compare and what detect makes of its result
    dr,            \* the DetectionResult made of detect's return, saved and loaded
    sp             \* one call of CLIModel.query or of a session handler, over the
                   \* subprocess it runs

cvars == <<cmp, dr, sp>>

\* TestingStep.test_sections over ModelManager.query_all
VARIABLES
    ts,            \* the call of test_sections
    qa             \* the call of query_all in progress

tvars == <<ts, qa>>

svars == <<mode, max_retries, sessions, handlers, document, purpose, createCalls, q, ownerCall,
           pvars, mvars, cvars, tvars>>

vars == <<dvars, svars>>

\* One iteration of the loop of detect: the section's results, the
\* interpretations handed to the strategy (called), the judge's reply, what
\* compare did, and the Ambiguity appended (with its interpretations map as
\* the list of its values).
Iteration(section_id, results, called, compared, reply, outcome, produced) ==
    [section_id |-> section_id, results |-> results, called |-> called,
     compared |-> compared, reply |-> reply, outcome |-> outcome, produced |-> produced]

NoIteration == Iteration(-1, << >>, FALSE, << >>, << >>, Returned(OnlyOne), << >>)

\* The caller's outcome. state: "detecting" or "finished".
Run(state, outcome, error_type, section_id, reason, ambiguities_saved, report_saved, ambiguities_found) ==
    [state |-> state, outcome |-> outcome, error_type |-> error_type,
     section_id |-> section_id, reason |-> reason,
     ambiguities_saved |-> ambiguities_saved, report_saved |-> report_saved,
     ambiguities_found |-> ambiguities_found]

InitDetect ==
    /\ caller = ""
    /\ strategy_name \in {"simple", "llm_judge"}
    /\ nSections \in 0..MaxSections
    /\ idx = 0
    /\ ambiguities = << >>
    /\ pc = "running"
    /\ exc = NoException
    /\ judgeCalls = 0
    /\ firstMalfunction = 0
    /\ last = NoIteration
    /\ run = Run("detecting", "", "", -1, "", FALSE, FALSE, 0)

\* ------------------------------------------------------------------------
\* AmbiguityDetector.detect
\* ------------------------------------------------------------------------

\* test_results[section_id]['section']: the first section has a header and a
\* content, the later ones were stored without either.
SectionDict(section_id) ==
    IF section_id = 0
    THEN [keys |-> {"header", "content"}, header |-> "Step 2: Generate Output",
          content |-> "Create N cards per word"]
    ELSE [keys |-> {}, header |-> "", content |-> ""]

\* section.get('header', 'Unknown') and section.get('content', '')
section_header(section_id) == Get(SectionDict(section_id), "header", "Unknown")
section_content(section_id) == Get(SectionDict(section_id), "content", "")

\* A detect that would append an Ambiguity whatever the comparison says.
AmbiguityForAny(section_id, interpretations, comparison) ==
    <<[section_id |-> section_id, section_header |-> section_header(section_id),
       section_content |-> section_content(section_id),
       severity |-> _determine_severity(comparison),
       interpretations |-> interpretations, comparison_details |-> comparison,
       reason |-> ""]>>

\* The Ambiguity an iteration appends for `comparison`, if any.
AmbiguityFor(section_id, interpretations, comparison) ==
    IF ~comparison.agree
    THEN <<[section_id |-> section_id, section_header |-> section_header(section_id),
            section_content |-> section_content(section_id),
            severity |-> _determine_severity(comparison),
            interpretations |-> interpretations, comparison_details |-> comparison,
            reason |-> ""]>>
    ELSE IF Get(comparison, "assumptions_made", << >>) # << >>
    THEN <<[section_id |-> section_id, section_header |-> section_header(section_id),
            section_content |-> section_content(section_id),
            severity |-> "low",
            interpretations |-> interpretations, comparison_details |-> comparison,
            reason |-> "Models agreed but made assumptions"]>>
    ELSE << >>

Compact(produced) ==
    [k \in 1..Len(produced) |->
        AmbiguityEntry(produced[k].section_id, produced[k].severity,
                       InterpModels(produced[k].interpretations), produced[k].reason)]

\* The rest of an iteration once compare has returned or raised.
AfterCompare(results, interpretations, reply, outcome) ==
    LET produced == IF outcome.kind = "return"
                    THEN AmbiguityFor(idx, interpretations, outcome.comparison)
                    ELSE << >>
    IN  /\ last' = Iteration(idx, results, TRUE, interpretations, reply, outcome, produced)
        /\ IF outcome.kind = "raise"
           THEN /\ pc' = "raised"
                /\ exc' = outcome.exception
                /\ UNCHANGED <<idx, ambiguities>>
           ELSE /\ pc' = "iterated"
                /\ idx' = idx + 1
                /\ ambiguities' = ambiguities \o Compact(produced)
                /\ UNCHANGED exc

\* One iteration of `for section_id, data in test_results.items()`.
DetectSection ==
    /\ run.state = "detecting"
    /\ pc = "running"
    /\ idx < nSections
    /\ \E results \in SectionResults :
         LET interpretations == ParseInterpretations(results)
         IN  IF Len(interpretations) < 2
             THEN /\ last' = Iteration(idx, results, FALSE, << >>, << >>, Returned(OnlyOne), << >>)
                  /\ idx' = idx + 1
                  /\ pc' = "iterated"
                  /\ UNCHANGED <<ambiguities, exc, judgeCalls, firstMalfunction>>
             ELSE IF strategy_name = "simple"
             THEN /\ AfterCompare(results, interpretations, << >>,
                                  Returned(SimpleCompare(interpretations)))
                  /\ UNCHANGED <<judgeCalls, firstMalfunction>>
             ELSE \E reply \in JudgeReplies :
                  /\ judgeCalls' = judgeCalls + 1
                  /\ firstMalfunction' = IF firstMalfunction = 0 /\ IsMalfunction(reply)
                                         THEN judgeCalls + 1 ELSE firstMalfunction
                  /\ AfterCompare(results, interpretations, <<reply>>,
                                  JudgeCompare(reply, interpretations))
    /\ UNCHANGED <<strategy_name, caller, nSections, run>>
    /\ UNCHANGED svars

\* The loop's back edge: the iteration's locals are dead at the head of the loop.
NextIteration ==
    /\ run.state = "detecting"
    /\ pc = "iterated"
    /\ pc' = "running"
    /\ last' = NoIteration
    /\ UNCHANGED <<strategy_name, caller, nSections, idx, ambiguities, exc, judgeCalls,
                   firstMalfunction, run>>
    /\ UNCHANGED svars

\* The end of detect: sort by severity and return.
DetectReturn ==
    /\ run.state = "detecting"
    /\ pc = "running"
    /\ idx = nSections
    /\ ambiguities' = SortBySeverity(ambiguities)
    /\ pc' = "returned"
    /\ UNCHANGED <<strategy_name, caller, nSections, idx, exc, judgeCalls,
                   firstMalfunction, last, run>>
    /\ UNCHANGED svars

\* ------------------------------------------------------------------------
\* The callers: DetectionStep.detect inside DocumentPolisher.polish and
\* inside detect_ambiguities.main
\* ------------------------------------------------------------------------

\* polish, from `detection_result = detection_step.detect(test_results)` on.
PolishOutcome ==
    IF pc = "raised" /\ exc.type = "JudgeFailureError"
    THEN Run("finished", "judge_failure", "judge_failure", exc.section_id, exc.reason,
             FALSE, FALSE, 0)
    ELSE IF pc = "raised"
    THEN Run("finished", "uncaught:" \o exc.type, "", -1, "", FALSE, FALSE, 0)
    ELSE Run("finished",
             IF Len(ambiguities) = 0 THEN "no_ambiguities_found" ELSE "polished",
             "", -1, "", TRUE, TRUE, Len(ambiguities))

\* detect_ambiguities.main, from `result = step.detect(...)` on.
DetectAmbiguitiesOutcome ==
    IF pc = "raised" /\ exc.type = "JudgeFailureError"
    THEN Run("finished", "judge_failure", "judge_failure", exc.section_id, exc.reason,
             FALSE, FALSE, 0)
    ELSE IF pc = "raised"
    THEN Run("finished", "error", "", -1, "", FALSE, FALSE, 0)
    ELSE Run("finished", "detection_complete", "", -1, "", TRUE, FALSE, Len(ambiguities))

\* polish always detects with the judge, and returns before step 3 when the
\* document has no section; detect_ambiguities.main takes either strategy.
Callers ==
    {"detect_ambiguities"} \cup
    (IF strategy_name = "llm_judge" /\ nSections > 0 THEN {"polish"} ELSE {})

Finish ==
    /\ run.state = "detecting"
    /\ pc \in {"returned", "raised"}
    /\ \E c \in Callers :
         /\ caller' = c
         /\ run' = IF c = "polish" THEN PolishOutcome ELSE DetectAmbiguitiesOutcome
    /\ UNCHANGED <<strategy_name, nSections, idx, ambiguities, pc, exc,
                   judgeCalls, firstMalfunction, last>>
    /\ UNCHANGED svars

NextDetect == DetectSection \/ NextIteration \/ DetectReturn \/ Finish

\* ------------------------------------------------------------------------
\* ComparisonStrategy.compare called on its own, and what the body of
\* detect's loop makes of its result
\* ------------------------------------------------------------------------

\* {"interpretation": "Create 3 entries", "steps": [s1, s2], "assumptions": [], "ambiguities": []}
RParsedD == Response(ParsedKeys, FALSE, "", "", TextA, <<"s1", "s2">>, << >>, << >>)

TextSeparate == <<"Create", "3", "separate", "entries">>
TextExpanded == <<"Create", "one", "entry", "expanded", "to", "N", "cards">>

\* {"interpretation": "Create 3 separate entries", "steps": [], "assumptions": [], "ambiguities": []}
RSeparate == Response(ParsedKeys, FALSE, "", "", TextSeparate, << >>, << >>, << >>)
\* {"interpretation": "Create one entry expanded to N cards", "steps": [],
\*  "assumptions": ["N determined by type"], "ambiguities": ["unclear what N means"]}
RExpanded ==
    Response(ParsedKeys, FALSE, "", "", TextExpanded, << >>,
             <<"N determined by type">>, <<"unclear what N means">>)

CompareResponses ==
    {RParsedA, RParsedB, RParsedC, RParsedD, RSeparate, RExpanded, RBlank, RErrMessage}

\* The lists of interpretations compare is called with: those of the models
\* that answered without an error, in the order of the model list.
CompareInputs ==
    {ParseInterpretations(results) : results \in [1..Len(ModelNames) -> CompareResponses]}

\* The similarity values a judge puts in its reply, in tenths.
SimilarityTenths == -1..11

\* {"agree": True, "similarity": 0.9, "explanation": "...", "key_differences": [],
\*  "shared_ambiguities": True, "shared_concerns": ["timeout value unclear"]}
JShared ==
    [JAgree EXCEPT !.keys = @ \cup {"shared_ambiguities", "shared_concerns"},
                   !.shared_ambiguities = TRUE,
                   !.shared_concerns = <<"timeout value unclear">>]

CompareReplies ==
    JudgeReplies \cup {JShared} \cup
    {JudgeReply({"agree", "similarity"}, FALSE, "", a, TRUE, Rat(n, 10)) :
        a \in BOOLEAN, n \in SimilarityTenths}

\* The compare the tests of detect put in place of the strategy's: the
\* models agree in one group, and share a concern or not.
\* {'agree': True, 'similarity': 0.9, 'details': 'Models agree', 'groups': [[...]],
\*  'key_differences': [], 'shared_ambiguities': shared, 'shared_concerns': [...]}
mock_compare(interpretations, shared) ==
    [Comparison(JudgeKeys \cup {"shared_ambiguities", "shared_concerns"}, TRUE, Rat(9, 10),
                "Models agree", <<InterpModels(interpretations)>>, << >>, << >>)
        EXCEPT !.shared_ambiguities = shared,
               !.shared_concerns = IF shared THEN <<"timeout value unclear">> ELSE << >>]

\* The call of compare: pc is "idle", "called", "compared" or "decided";
\* strategy is "simple", "llm_judge" or "mock"; reply is the judge's reply,
\* or the dict the mock takes its shared_ambiguities from (none for the
\* simple strategy), outcome what compare did, produced the Ambiguity detect
\* appends for it.
CompareCall(cpc, strategy, interpretations, reply, outcome, produced) ==
    [pc |-> cpc, strategy |-> strategy, interpretations |-> interpretations,
     reply |-> reply, outcome |-> outcome, produced |-> produced]

NoCompare == CompareCall("idle", "", << >>, << >>, Returned(OnlyOne), << >>)

\* self.strategy.compare(interpretations)
Compare ==
    /\ cmp.pc = "called"
    /\ cmp' = [cmp EXCEPT !.pc = "compared",
                          !.outcome = IF cmp.strategy = "simple"
                                      THEN Returned(SimpleCompare(cmp.interpretations))
                                      ELSE IF cmp.strategy = "mock"
                                      THEN Returned(mock_compare(cmp.interpretations,
                                                       cmp.reply[1].shared_ambiguities))
                                      ELSE JudgeCompare(cmp.reply[1], cmp.interpretations)]
    /\ UNCHANGED <<dvars, mode, max_retries, sessions, handlers, document, purpose,
                   createCalls, q, ownerCall, pvars, mvars, tvars, dr, sp>>

\* detect, from `if not comparison['agree']` to the end of the loop body,
\* for a section with two or more valid interpretations.
Decide ==
    /\ cmp.pc = "compared"
    /\ cmp.outcome.kind = "return"
    /\ Len(cmp.interpretations) >= 2
    /\ cmp' = [cmp EXCEPT !.pc = "decided",
                          !.produced = AmbiguityFor(0, cmp.interpretations,
                                                    cmp.outcome.comparison)]
    /\ UNCHANGED <<dvars, mode, max_retries, sessions, handlers, document, purpose,
                   createCalls, q, ownerCall, pvars, mvars, tvars, dr, sp>>

\* ------------------------------------------------------------------------
\* DetectionResult.save and DetectionResult.load
\* ------------------------------------------------------------------------

\* The results of a second section: claude and gemini answer differently,
\* codex timed out.
LaterResults == <<RParsedA, RParsedC, RErrMessage>>

\* What the strategy of the pass says of the second section.
LaterComparison(strategy, interpretations) ==
    IF strategy = "simple" THEN SimpleCompare(interpretations)
    ELSE IF strategy = "mock" THEN mock_compare(interpretations, FALSE)
    ELSE JudgeCompare(JDisagree, interpretations).comparison

\* What detect appends for the sections after the first: test_results has
\* one section, or a second one with LaterResults.
LaterSections(strategy) ==
    LET interpretations == ParseInterpretations(LaterResults)
    IN  {<< >>,
         AmbiguityFor(1, interpretations, LaterComparison(strategy, interpretations))}

\* A DetectionResult on its way through a file: pc is "idle", "held" (made
\* of detect's return), "saved" or "loaded"; file is the JSON document
\* written, loaded the list DetectionResult.load builds from it.
DetectionResult(rpc, held, file, loaded) ==
    [pc |-> rpc, ambiguities |-> held, file |-> file, loaded |-> loaded]

NoDetectionResult == DetectionResult("idle", << >>, << >>, << >>)

AmbiguityKeys ==
    {"section_id", "section_header", "section_content", "severity", "interpretations",
     "comparison_details"}

\* A to_dict that would leave the steps out of each interpretation.
to_dict_without_steps(amb) ==
    [keys |-> AmbiguityKeys,
     section_id |-> amb.section_id,
     section_header |-> amb.section_header,
     section_content |-> amb.section_content,
     severity |-> amb.severity,
     interpretations |->
        [k \in 1..Len(amb.interpretations) |->
            <<amb.interpretations[k].model_name,
              [keys |-> ParsedKeys \ {"steps"},
               interpretation |-> amb.interpretations[k].interpretation,
               steps |-> << >>,
               assumptions |-> amb.interpretations[k].assumptions,
               ambiguities |-> amb.interpretations[k].ambiguities]>>],
     comparison_details |-> [comparison |-> amb.comparison_details, reason |-> amb.reason]]

\* Ambiguity.to_dict: the dict json.dump writes. The interpretations dict is
\* the list of its items (name, dict) in insertion order; severity is
\* severity.value; comparison_details carries the 'reason' key.
to_dict(amb) ==
    [keys |-> AmbiguityKeys,
     section_id |-> amb.section_id,
     section_header |-> amb.section_header,
     section_content |-> amb.section_content,
     severity |-> amb.severity,
     interpretations |->
        [k \in 1..Len(amb.interpretations) |->
            <<amb.interpretations[k].model_name,
              [keys |-> ParsedKeys,
               interpretation |-> amb.interpretations[k].interpretation,
               steps |-> amb.interpretations[k].steps,
               assumptions |-> amb.interpretations[k].assumptions,
               ambiguities |-> amb.interpretations[k].ambiguities]>>],
     comparison_details |-> [comparison |-> amb.comparison_details, reason |-> amb.reason]]

\* Severity(value): the member with that value, ValueError for any other.
Severity(value) ==
    IF value \in {"critical", "high", "medium", "low"} THEN value ELSE "ValueError"

\* The Ambiguity DetectionResult.load builds from one entry of the file.
load_ambiguity(amb_data) ==
    [section_id |-> amb_data.section_id,
     section_header |-> amb_data.section_header,
     section_content |-> amb_data.section_content,
     severity |-> Severity(amb_data.severity),
     interpretations |->
        [k \in 1..Len(amb_data.interpretations) |->
            LET model_name == amb_data.interpretations[k][1]
                interp_data == amb_data.interpretations[k][2]
            IN  Interpretation(model_name,
                               Get(interp_data, "interpretation", TextEmpty),
                               Get(interp_data, "steps", << >>),
                               Get(interp_data, "assumptions", << >>),
                               Get(interp_data, "ambiguities", << >>),
                               None)],
     comparison_details |-> amb_data.comparison_details.comparison,
     reason |-> amb_data.comparison_details.reason]

\* DetectionResult(ambiguities=detector.detect(test_results), ...)
Detected ==
    /\ cmp.pc = "decided"
    /\ dr.pc = "idle"
    /\ \E later \in LaterSections(cmp.strategy) :
         dr' = DetectionResult("held", SortBySeverity(cmp.produced \o later), << >>, << >>)
    /\ UNCHANGED <<dvars, mode, max_retries, sessions, handlers, document, purpose,
                   createCalls, q, ownerCall, pvars, mvars, tvars, cmp, sp>>

\* DetectionResult.save
Save ==
    /\ dr.pc = "held"
    /\ dr' = [dr EXCEPT !.pc = "saved",
                        !.file = [k \in 1..Len(dr.ambiguities) |-> to_dict(dr.ambiguities[k])]]
    /\ UNCHANGED <<dvars, mode, max_retries, sessions, handlers, document, purpose,
                   createCalls, q, ownerCall, pvars, mvars, tvars, cmp, sp>>

\* DetectionResult.load
Load ==
    /\ dr.pc = "saved"
    /\ dr' = [dr EXCEPT !.pc = "loaded",
                        !.loaded = [k \in 1..Len(dr.file) |-> load_ambiguity(dr.file[k])]]
    /\ UNCHANGED <<dvars, mode, max_retries, sessions, handlers, document, purpose,
                   createCalls, q, ownerCall, pvars, mvars, tvars, cmp, sp>>

NextCompare == Compare \/ Decide \/ Detected \/ Save \/ Load

\* ------------------------------------------------------------------------
\* subprocess.run under CLIModel.query and under the session handlers
\* ------------------------------------------------------------------------

\* What a CLI prints on stdout, as the chunks the parsers tell apart: a JSON
\* object (a model response, or Claude's session envelope), a markdown
\* fence ("[fence json]" and "[fence]" stand for three backquotes with and
\* without the word json), prose, the line Codex prints its session id on.
Stdouts ==
    {<<"{response}">>, <<"[fence json]", "{response}", "[fence]">>, <<"[fence]", "{response}", "[fence]">>,
     <<"{session}">>, <<"text">>, <<"[fence]", "text", "[fence]">>, <<"session id: 0a1b">>, << >>}

Stderrs ==
    {"", "Error: session not found", "Error: rate limit exceeded", "invalid session",
     "No such session", "Session expired"}

\* The phrases of the handlers' heuristics found in stderr.lower().
PhrasesIn(stderr) ==
    CASE stderr = "Error: session not found" -> {"session", "not found", "no"}
      [] stderr = "invalid session"          -> {"session", "invalid"}
      [] stderr = "No such session"          -> {"session", "no"}
      [] stderr = "Session expired"          -> {"session"}
      [] OTHER                               -> {}

\* What subprocess.run does: it returns a CompletedProcess, or raises
\* TimeoutExpired, FileNotFoundError or another OSError.
Completed(returncode, stdout, stderr) ==
    [kind |-> "completed", returncode |-> returncode, stdout |-> stdout, stderr |-> stderr,
     message |-> ""]

RunRaises(kind, message) ==
    [kind |-> kind, returncode |-> -1, stdout |-> << >>, stderr |-> "", message |-> message]

Runs ==
    {Completed(rc, out, err) : rc \in {0, 1}, out \in Stdouts, err \in Stderrs}
    \cup {RunRaises("TimeoutExpired", "Command timed out"),
          RunRaises("FileNotFoundError", "[Errno 2] No such file or directory"),
          RunRaises("PermissionError", "[Errno 13] Permission denied")}

\* json.loads: the dict, or JSONDecodeError.
json_loads(text) ==
    IF text = <<"{response}">> THEN [ok |-> TRUE, value |-> RParsedA]
    ELSE IF text = <<"{session}">>
    THEN [ok |-> TRUE, value |-> [keys |-> {"session_id"}, session_id |-> "session-123"]]
    ELSE [ok |-> FALSE, value |-> None]

\* _strip_markdown_code_blocks (CLIModel and BaseSessionHandler alike)
_strip_markdown_code_blocks(text) ==
    LET start == IF text # << >> /\ Head(text) \in {"[fence json]", "[fence]"} THEN Tail(text) ELSE text
    IN  IF start # << >> /\ start[Len(start)] = "[fence]"
        THEN SubSeq(start, 1, Len(start) - 1)
        ELSE start

\* What a call did: it returned `value` or raised an exception of `type`.
Outcome(kind, type, value) == [kind |-> kind, type |-> type, value |-> value]

\* CLIModel.query
CLIModel_query(proc) ==
    IF proc.kind = "TimeoutExpired"
    THEN Outcome("return", "", RErrMessage)
    ELSE IF proc.kind = "FileNotFoundError"
    THEN Outcome("return", "",
                 [RErrMessage EXCEPT !.message = "Command 'claude' not found. Is it installed?"])
    ELSE IF proc.kind # "completed"
    THEN Outcome("return", "", [RErrMessage EXCEPT !.message = proc.message])
    ELSE IF proc.returncode # 0
    THEN Outcome("return", "",
                 Response({"error", "stderr", "raw_response"}, TRUE, "", proc.stderr,
                          TextEmpty, << >>, << >>, << >>))
    ELSE IF json_loads(proc.stdout).ok
    THEN Outcome("return", "", json_loads(proc.stdout).value)
    ELSE IF json_loads(_strip_markdown_code_blocks(proc.stdout)).ok
    THEN Outcome("return", "", json_loads(_strip_markdown_code_blocks(proc.stdout)).value)
    ELSE Outcome("return", "", RRaw)

\* BaseSessionHandler._run_command: the exception it raises, "" if it
\* returns the CompletedProcess.
_run_command(proc) ==
    IF proc.kind \in {"TimeoutExpired", "FileNotFoundError"} THEN "SessionQueryError"
    ELSE IF proc.kind # "completed" THEN proc.kind
    ELSE ""

\* BaseSessionHandler._parse_response
_parse_response(stdout) ==
    IF json_loads(stdout).ok THEN json_loads(stdout).value
    ELSE IF json_loads(_strip_markdown_code_blocks(stdout)).ok
    THEN json_loads(_strip_markdown_code_blocks(stdout)).value
    ELSE Response({"raw_response"}, FALSE, "", "", TextEmpty, << >>, << >>, << >>)

\* The stderr heuristic of each handler's query_session.
SessionGone(handler, stderr) ==
    /\ "session" \in PhrasesIn(stderr)
    /\ IF handler = "codex"
       THEN PhrasesIn(stderr) \cap {"not found", "no"} # {}
       ELSE PhrasesIn(stderr) \cap {"not found", "invalid"} # {}

\* A query_session that would take every non-zero exit for a lost session.
query_session_always_lost(handler, proc) ==
    IF _run_command(proc) # "" THEN Outcome("raise", _run_command(proc), None)
    ELSE IF proc.returncode # 0
    THEN Outcome("raise", "SessionLostError", None)
    ELSE Outcome("return", "", _parse_response(proc.stdout))

\* ClaudeSessionHandler / GeminiSessionHandler / CodexSessionHandler.query_session
query_session(handler, proc) ==
    IF _run_command(proc) # "" THEN Outcome("raise", _run_command(proc), None)
    ELSE IF proc.returncode # 0
    THEN IF SessionGone(handler, proc.stderr)
         THEN Outcome("raise", "SessionLostError", None)
         ELSE Outcome("raise", "SessionQueryError", None)
    ELSE Outcome("return", "", _parse_response(proc.stdout))

\* CodexSessionHandler._extract_session_id on stdout + stderr
_extract_session_id(proc) ==
    IF proc.stdout = <<"session id: 0a1b">> THEN "0a1b" ELSE None

\* ClaudeSessionHandler / GeminiSessionHandler / CodexSessionHandler.create_session
create_session(handler, proc) ==
    IF _run_command(proc) # "" THEN Outcome("raise", _run_command(proc), None)
    ELSE IF proc.returncode # 0 THEN Outcome("raise", "SessionCreationError", None)
    ELSE IF handler = "claude"
    THEN IF ~json_loads(proc.stdout).ok
         THEN Outcome("raise", "SessionCreationError", None)
         ELSE IF Get(json_loads(proc.stdout).value, "session_id", None) = None
         THEN Outcome("raise", "SessionCreationError", None)
         ELSE Outcome("return", "", json_loads(proc.stdout).value.session_id)
    ELSE IF handler = "gemini" THEN Outcome("return", "", "latest")
    ELSE IF _extract_session_id(proc) # None
    THEN Outcome("return", "", _extract_session_id(proc))
    ELSE Outcome("return", "", "last")

\* One call over one subprocess: pc is "idle", "called", "done" or
\* "filtered"; op is "query" (CLIModel.query), "create_session" or
\* "query_session"; model names the CLI; kept tells whether detect keeps
\* the interpretation made of the response.
Subprocess(spc, op, model, proc, outcome, kept) ==
    [pc |-> spc, op |-> op, model |-> model, proc |-> proc, outcome |-> outcome, kept |-> kept]

NoOutcome == Outcome("", "", None)

NoSubprocess == Subprocess("idle", "", "", RunRaises("", ""), NoOutcome, FALSE)

\* CLIModel.query(prompt)
CLIQuery ==
    /\ sp.pc = "called"
    /\ sp.op = "query"
    /\ sp' = [sp EXCEPT !.pc = "done", !.outcome = CLIModel_query(sp.proc)]
    /\ UNCHANGED <<dvars, mode, max_retries, sessions, handlers, document, purpose,
                   createCalls, q, ownerCall, pvars, mvars, tvars, cmp, dr>>

\* detect on the response: Interpretation.from_response and the filter.
Filter ==
    /\ sp.pc = "done"
    /\ sp.op = "query"
    /\ sp.outcome.kind = "return"
    /\ sp' = [sp EXCEPT !.pc = "filtered",
                        !.kept = PassesFilter(from_response(sp.model, sp.outcome.value))]
    /\ UNCHANGED <<dvars, mode, max_retries, sessions, handlers, document, purpose,
                   createCalls, q, ownerCall, pvars, mvars, tvars, cmp, dr>>

\* handler.create_session(document, purpose)
HandlerCreate ==
    /\ sp.pc = "called"
    /\ sp.op = "create_session"
    /\ sp' = [sp EXCEPT !.pc = "done", !.outcome = create_session(sp.model, sp.proc)]
    /\ UNCHANGED <<dvars, mode, max_retries, sessions, handlers, document, purpose,
                   createCalls, q, ownerCall, pvars, mvars, tvars, cmp, dr>>

\* handler.query_session(session_id, prompt)
HandlerQuery ==
    /\ sp.pc = "called"
    /\ sp.op = "query_session"
    /\ sp' = [sp EXCEPT !.pc = "done", !.outcome = query_session(sp.model, sp.proc)]
    /\ UNCHANGED <<dvars, mode, max_retries, sessions, handlers, document, purpose,
                   createCalls, q, ownerCall, pvars, mvars, tvars, cmp, dr>>

NextSubprocess == CLIQuery \/ Filter \/ HandlerCreate \/ HandlerQuery

\* ------------------------------------------------------------------------
\* SessionManager
\* ------------------------------------------------------------------------

\* The models sessions are kept for.
SessionModels == {"claude", "gemini"}

Documents == {"", "# Document"}
Prompts == {"Analyze section 1", "Analyze section 2"}
SessionResponses == {"analysis 1", "analysis 2"}

\* session_config.get("purpose_prompt", "")
purpose_prompt == ""

\* Python's `a or b` on Optional[str].
StrOr(a, b) == IF TruthyStr(a) THEN a ELSE b

\* The identifier the n-th create_session of a model's handler returns:
\* ClaudeSessionHandler a fresh session_id, GeminiSessionHandler always "latest".
SessionId(issuer, serial) == [issuer |-> issuer, serial |-> serial]
create_session_id(model_name, n) ==
    IF model_name = "gemini" THEN SessionId("gemini", 0) ELSE SessionId(model_name, n)

NoSessionId == SessionId("", 0)

\* The manager's fields as one value.
Manager(s, h, d, p, c) == [sessions |-> s, handlers |-> h, document |-> d, purpose |-> p, createCalls |-> c]
Self == Manager(sessions, handlers, document, purpose, createCalls)

SetManager(M) ==
    /\ sessions' = M.sessions
    /\ handlers' = M.handlers
    /\ document' = M.document
    /\ purpose' = M.purpose
    /\ createCalls' = M.createCalls

\* A dict assignment that would write every entry.
DictSetAll(d, k, v) == [x \in DOMAIN d \cup {k} |-> v]

DictSet(d, k, v) == [x \in DOMAIN d \cup {k} |-> IF x = k THEN v ELSE d[x]]
DictDel(d, k) == [x \in DOMAIN d \ {k} |-> d[x]]
EmptyDict == [x \in {} |-> NoSessionId]

\* What a method call did: the manager after it, and its return or exception.
Did(M, kind, type, value) == [M |-> M, kind |-> kind, type |-> type, value |-> value]

\* What one create_session can do: return an identifier, fail with
\* SessionCreationError (non-zero exit, no session_id in the output), or
\* fail with SessionQueryError (_run_command: timeout, command not found).
CreateResults == {"ok", "SessionCreationError", "SessionQueryError"}

\* SessionManager.init_session, `created` being what create_session does.
init_session(M, model_name, doc, purp, created) ==
    LET n == M.createCalls[model_name] + 1
        M1 == [M EXCEPT !.document = doc,
                        !.purpose = StrOr(purp, purpose_prompt),
                        !.handlers = @ \cup {model_name},
                        !.createCalls[model_name] = n]
        session_id == create_session_id(model_name, n)
    IN  IF created = "ok"
        THEN Did([M1 EXCEPT !.sessions = DictSet(@, model_name, session_id)],
                 "return", "", session_id)
        ELSE Did(M1, "raise", created, NoSessionId)

\* A recreate_session that would not look for the remembered document.
recreate_unchecked(M, model_name, created) ==
    init_session([M EXCEPT !.sessions = DictDel(@, model_name)],
                 model_name, M.document, M.purpose, created)

\* A recreate_session that would leave the old entry in place until the new
\* session exists.
recreate_keeping_entry(M, model_name, created) ==
    IF ~TruthyStr(M.document)
    THEN Did(M, "raise", "SessionCreationError", NoSessionId)
    ELSE init_session(M, model_name, M.document, M.purpose, created)

\* SessionManager.recreate_session
recreate_session(M, model_name, created) ==
    IF ~TruthyStr(M.document)
    THEN Did(M, "raise", "SessionCreationError", NoSessionId)
    ELSE init_session([M EXCEPT !.sessions = DictDel(@, model_name)],
                      model_name, M.document, M.purpose, created)

\* A call of a handler made by query_in_session.
HandlerCall(op, session_id, prompt, result, response) ==
    [op |-> op, session_id |-> session_id, prompt |-> prompt, result |-> result,
     response |-> response]

\* The call of query_in_session: pc is "idle", "loop" (at the head of the
\* while loop) or "done"; calls are the handler calls it made so far;
\* created0 and sessions0 are createCalls[model] and the session map when it
\* started.
Query(qpc, model, prompt, session_id, retries, calls, kind, type, value, created0, sessions0) ==
    [pc |-> qpc, model |-> model, prompt |-> prompt, session_id |-> session_id,
     retries |-> retries, calls |-> calls, kind |-> kind, type |-> type, value |-> value,
     created0 |-> created0, sessions0 |-> sessions0]

NoQuery == Query("idle", "", "", NoSessionId, 0, << >>, "", "", "", 0, EmptyDict)

\* A call of a method of the manager by its owner: what it did, and the
\* manager before it.
Call(op, model, did, before) ==
    [op |-> op, model |-> model, kind |-> did.kind, type |-> did.type, value |-> did.value,
     before |-> before]

NoCall == Call("", "", Did(0, "", "", NoSessionId), 0)

InitSessions ==
    /\ mode \in {"auto-recreate", "fail-fast"}
    /\ max_retries \in 0..MaxRetries
    /\ sessions = EmptyDict
    /\ handlers = {}
    /\ document = None
    /\ purpose = None
    /\ createCalls = [m \in SessionModels |-> 0]
    /\ q = NoQuery
    /\ ownerCall = NoCall

\* A call of init_session by the owner of the manager.
InitSession ==
    /\ q.pc = "idle"
    /\ mq.pc = "idle"
    /\ \E model_name \in SessionModels, doc \in Documents, purp \in {None, "Purpose"},
          created \in CreateResults :
         /\ createCalls[model_name] < MaxCreates
         /\ SetManager(init_session(Self, model_name, doc, purp, created).M)
    /\ ownerCall' = NoCall
    /\ UNCHANGED <<mode, max_retries, q>>
    /\ UNCHANGED <<dvars, cvars, tvars, pvars, mvars>>

\* A call of recreate_session by the owner of the manager.
RecreateSession ==
    /\ q.pc = "idle"
    /\ \E model_name \in SessionModels, created \in CreateResults :
         LET did == recreate_session(Self, model_name, created)
         IN  /\ IF TruthyStr(document)
                THEN createCalls[model_name] < MaxCreates
                ELSE created = "ok"
             /\ SetManager(did.M)
             /\ ownerCall' = Call("recreate_session", model_name, did, Self)
    /\ UNCHANGED <<mode, max_retries, q>>
    /\ UNCHANGED <<dvars, cvars, tvars, pvars, mvars>>

\* A cleanup_sessions that would keep the remembered document.
cleanup_keeping_document(M) == [M EXCEPT !.sessions = EmptyDict, !.purpose = None]

\* SessionManager.cleanup_sessions on the manager M.
cleanup_sessions(M) == [M EXCEPT !.sessions = EmptyDict, !.document = None, !.purpose = None]

\* SessionManager.cleanup_sessions
CleanupSessions ==
    /\ q.pc = "idle"
    /\ mq.pc = "idle"
    /\ SetManager(cleanup_sessions(Self))
    /\ ownerCall' = Call("cleanup_sessions", "", Did(0, "return", "", NoSessionId), Self)
    /\ UNCHANGED <<mode, max_retries, q>>
    /\ UNCHANGED <<dvars, cvars, tvars, pvars, mvars>>

\* A query_in_session that would not look for the model's session first.
QueryStartUnchecked ==
    /\ q.pc = "idle"
    /\ \E model_name \in SessionModels, prompt \in Prompts :
         q' = Query("loop", model_name, prompt, Get([keys |-> DOMAIN sessions] @@ sessions,
                                                    model_name, NoSessionId),
                    0, << >>, "", "", "", createCalls[model_name], sessions)
    /\ ownerCall' = NoCall
    /\ UNCHANGED <<mode, max_retries, sessions, handlers, document, purpose, createCalls>>
    /\ UNCHANGED <<dvars, cvars, tvars, pvars, mvars>>

\* query_in_session up to the while loop.
\* A query_in_session that would take the session of whichever model comes first.
query_in_session_any(model_name, prompt) ==
    IF model_name \notin DOMAIN sessions
    THEN Query("done", model_name, prompt, NoSessionId, 0, << >>,
               "raise", "SessionQueryError", "No active session", createCalls[model_name],
               sessions)
    ELSE Query("loop", model_name, prompt, sessions[CHOOSE m \in DOMAIN sessions : TRUE], 0,
               << >>, "", "", "", createCalls[model_name], sessions)

query_in_session_begin(model_name, prompt) ==
    IF model_name \notin DOMAIN sessions
    THEN Query("done", model_name, prompt, NoSessionId, 0, << >>,
               "raise", "SessionQueryError", "No active session", createCalls[model_name],
               sessions)
    ELSE Query("loop", model_name, prompt, sessions[model_name], 0, << >>,
               "", "", "", createCalls[model_name], sessions)

\* A call of query_in_session by the owner of the manager.
QueryStart ==
    /\ q.pc = "idle"
    /\ par.pc \in {"idle", "returned", "raised"}
    /\ \E model_name \in SessionModels, prompt \in Prompts :
         q' = query_in_session_begin(model_name, prompt)
    /\ ownerCall' = NoCall
    /\ UNCHANGED <<mode, max_retries, sessions, handlers, document, purpose, createCalls>>
    /\ UNCHANGED <<dvars, cvars, tvars, pvars, mvars>>

\* A query_in_session that would go on with the session_id it started with.
SessionIdKept(M, model_name, old) == old

\* The local session_id after a successful recreate_session.
SessionIdAfterRecreate(M, model_name, old) == M.sessions[model_name]

\* A loop that would go round again whatever `retries` has come to.
LoopHeadUnbounded(cur, session_id, retries, calls) ==
    [cur EXCEPT !.session_id = session_id, !.retries = retries, !.calls = calls]

\* Back at `while retries <= self.max_retries` with `retries`: the next
\* iteration, or the raise after the loop.
LoopHead(cur, session_id, retries, calls) ==
    IF retries <= max_retries
    THEN [cur EXCEPT !.session_id = session_id, !.retries = retries, !.calls = calls]
    ELSE [cur EXCEPT !.pc = "done", !.session_id = session_id, !.retries = retries,
                     !.calls = calls, !.kind = "raise", !.type = "SessionQueryError",
                     !.value = "Query failed after retries"]

Done(cur, calls, kind, type, value) ==
    [cur EXCEPT !.pc = "done", !.calls = calls, !.kind = kind, !.type = type, !.value = value]

\* A query_in_session that would count the failed attempt before making it.
ExhaustedEarly(retries) == retries >= max_retries

\* `if retries > self.max_retries` after a generic failure.
Exhausted(retries) == retries > max_retries

\* A query_in_session that would recreate whatever the mode.
RecreatesInAnyMode == TruthyStr(document)

\* `if self.mode == "auto-recreate" and self._document`
Recreates == mode = "auto-recreate" /\ TruthyStr(document)

\* One iteration of the while loop of query_in_session: query_session answers
\* (`answer` is "ok", "SessionLostError" or "SessionQueryError").
QueryAttempt ==
    /\ q.pc = "loop"
    /\ \E answer \in {"ok", "SessionLostError", "SessionQueryError"},
          response \in SessionResponses, created \in CreateResults :
         LET asked == Append(q.calls, HandlerCall("query_session", q.session_id, q.prompt, answer,
                                                 IF answer = "ok" THEN response ELSE ""))
         IN  IF answer = "ok"
             THEN /\ q' = Done(q, asked, "return", "", response)
                  /\ UNCHANGED <<sessions, handlers, document, purpose, createCalls>>
             ELSE IF answer = "SessionQueryError"
             THEN /\ response = "analysis 1" /\ created = "ok"
                  /\ q' = IF Exhausted(q.retries + 1)
                          THEN Done(q, asked, "raise", "SessionQueryError", "query failed")
                          ELSE LoopHead(q, q.session_id, q.retries + 1, asked)
                  /\ UNCHANGED <<sessions, handlers, document, purpose, createCalls>>
             ELSE IF Recreates
             THEN LET did == recreate_session(Self, q.model, created)
                      recreated == Append(asked,
                                       HandlerCall("create_session", did.value, "", created, ""))
                  IN  /\ response = "analysis 1"
                      /\ createCalls[q.model] < MaxCreates
                      /\ SetManager(did.M)
                      /\ q' = IF did.kind = "return"
                              THEN LoopHead(q, SessionIdAfterRecreate(did.M, q.model, q.session_id),
                                            q.retries + 1, recreated)
                              ELSE IF did.type = "SessionCreationError"
                              THEN Done(q, recreated, "raise", "SessionQueryError",
                                        "Failed to recreate session")
                              ELSE Done(q, recreated, "raise", did.type, "create_session failed")
             ELSE /\ response = "analysis 1" /\ created = "ok"
                  /\ q' = Done(q, asked, "raise", "SessionLostError", "session lost")
                  /\ UNCHANGED <<sessions, handlers, document, purpose, createCalls>>
    /\ UNCHANGED <<mode, max_retries, ownerCall>>
    /\ UNCHANGED <<dvars, cvars, tvars, pvars, mvars>>

\* The caller of query_in_session takes its result.
QueryTaken ==
    /\ q.pc = "done"
    /\ q' = NoQuery
    /\ UNCHANGED <<mode, max_retries, sessions, handlers, document, purpose, createCalls, ownerCall>>
    /\ UNCHANGED <<dvars, cvars, tvars, pvars, mvars>>

NextSessions ==
    \/ InitSession
    \/ RecreateSession
    \/ CleanupSessions
    \/ QueryStart
    \/ QueryAttempt
    \/ QueryTaken

\* ------------------------------------------------------------------------
\* SessionManager.init_sessions_parallel
\* ------------------------------------------------------------------------

\* The model names sessions are asked for; get_session_handler knows no
\* handler for "llama".
ParallelModels == SessionModels \cup {"llama"}

\* init_session up to `handler = self.handlers[model_name]`.
init_session_begin(M, model_name, doc, purp) ==
    [M EXCEPT !.document = doc,
              !.purpose = StrOr(purp, purpose_prompt),
              !.handlers = IF model_name \in SessionModels THEN @ \cup {model_name} ELSE @]

\* init_session from `handler.create_session(...)` on.
init_session_create(M, model_name, created) ==
    LET n == M.createCalls[model_name] + 1
        M1 == [M EXCEPT !.createCalls[model_name] = n]
        session_id == create_session_id(model_name, n)
    IN  IF created = "ok"
        THEN Did([M1 EXCEPT !.sessions = DictSet(@, model_name, session_id)],
                 "return", "", session_id)
        ELSE Did(M1, "raise", created, NoSessionId)

\* The call of init_sessions_parallel: pc is "idle", "running" (in the
\* as_completed loop), "unwinding" (an exception is leaving the `with`
\* block, which waits for the workers), "returned" or "raised"; document
\* and purpose are what the workers are given; collected are the models
\* whose future the loop has taken.
Parallel(ppc, model_names, doc, purp, results, collected, type) ==
    [pc |-> ppc, model_names |-> model_names, document |-> doc, purpose |-> purp,
     results |-> results, collected |-> collected, type |-> type]

NoParallel == Parallel("idle", {}, None, None, EmptyDict, {}, "")

\* A worker's init_session: pc is "submitted", "creating" (at
\* create_session) or "done".
Worker(wpc, kind, type, value) == [pc |-> wpc, kind |-> kind, type |-> type, value |-> value]

\* init_sessions_parallel up to the as_completed loop.
ParallelStart ==
    /\ par.pc = "idle"
    /\ q.pc = "idle"
    /\ \E model_names \in SUBSET ParallelModels, doc \in Documents, purp \in {None, "Purpose"} :
         /\ document' = doc
         /\ purpose' = StrOr(purp, purpose_prompt)
         /\ par' = Parallel("running", model_names, doc, StrOr(purp, purpose_prompt),
                            EmptyDict, {}, "")
         /\ workers' = [m \in model_names |-> Worker("submitted", "", "", NoSessionId)]
    /\ UNCHANGED <<mode, max_retries, sessions, handlers, createCalls, q, ownerCall>>
    /\ UNCHANGED <<dvars, cvars, tvars, mvars>>

\* A worker runs init_session up to create_session.
WorkerBegin ==
    /\ \E m \in DOMAIN workers :
         /\ workers[m].pc = "submitted"
         /\ SetManager(init_session_begin(Self, m, par.document, par.purpose))
         /\ workers' = [workers EXCEPT ![m] =
                            IF m \in SessionModels
                            THEN Worker("creating", "", "", NoSessionId)
                            ELSE Worker("done", "raise", "ValueError", NoSessionId)]
    /\ UNCHANGED <<mode, max_retries, q, ownerCall, par>>
    /\ UNCHANGED <<dvars, cvars, tvars, mvars>>

\* A worker's create_session ends and the worker stores the session or raises.
WorkerCreate ==
    /\ \E m \in DOMAIN workers, created \in CreateResults :
         LET did == init_session_create(Self, m, created)
         IN  /\ workers[m].pc = "creating"
             /\ createCalls[m] < MaxCreates
             /\ SetManager(did.M)
             /\ workers' = [workers EXCEPT ![m] = Worker("done", did.kind, did.type, did.value)]
    /\ UNCHANGED <<mode, max_retries, q, ownerCall, par>>
    /\ UNCHANGED <<dvars, cvars, tvars, mvars>>

\* One iteration of `for future in as_completed(futures)`.
Collect ==
    /\ par.pc = "running"
    /\ \E m \in par.model_names \ par.collected :
         /\ workers[m].pc = "done"
         /\ par' = IF workers[m].kind = "return"
                   THEN [par EXCEPT !.collected = @ \cup {m},
                                    !.results = DictSet(@, m, workers[m].value)]
                   ELSE IF workers[m].type = "SessionCreationError"
                   THEN [par EXCEPT !.collected = @ \cup {m}]
                   ELSE [par EXCEPT !.collected = @ \cup {m}, !.pc = "unwinding",
                                    !.type = workers[m].type]
    /\ UNCHANGED <<mode, max_retries, sessions, handlers, document, purpose, createCalls, q,
                   ownerCall, workers>>
    /\ UNCHANGED <<dvars, cvars, tvars, mvars>>

\* An init_sessions_parallel that would return without its workers.
ParallelReturnEarly ==
    /\ par.pc = "running"
    /\ par' = [par EXCEPT !.pc = "returned"]
    /\ UNCHANGED <<mode, max_retries, sessions, handlers, document, purpose, createCalls, q,
                   ownerCall, workers>>
    /\ UNCHANGED <<dvars, cvars, tvars, mvars>>

\* The loop is over, the `with` block is left and `results` is returned.
ParallelReturn ==
    /\ par.pc = "running"
    /\ par.collected = par.model_names
    /\ par' = [par EXCEPT !.pc = "returned"]
    /\ UNCHANGED <<mode, max_retries, sessions, handlers, document, purpose, createCalls, q,
                   ownerCall, workers>>
    /\ UNCHANGED <<dvars, cvars, tvars, mvars>>

\* The exception leaves the `with` block once every worker has ended.
ParallelRaise ==
    /\ par.pc = "unwinding"
    /\ \A m \in par.model_names : workers[m].pc = "done"
    /\ par' = [par EXCEPT !.pc = "raised"]
    /\ UNCHANGED <<mode, max_retries, sessions, handlers, document, purpose, createCalls, q,
                   ownerCall, workers>>
    /\ UNCHANGED <<dvars, cvars, tvars, mvars>>

NextParallel ==
    \/ ParallelStart
    \/ WorkerBegin
    \/ WorkerCreate
    \/ Collect
    \/ ParallelReturn
    \/ ParallelRaise
    \/ QueryStart
    \/ QueryAttempt
    \/ QueryTaken

\* ------------------------------------------------------------------------
\* ModelManager.query
\* ------------------------------------------------------------------------

\* The ModelManager: _sessions_enabled, whether session_manager is set, and
\* the keys of models.
ModelManager(sessions_enabled, session_manager, models) ==
    [sessions_enabled |-> sessions_enabled, session_manager |-> session_manager,
     models |-> models]

\* What the one-shot CLI invocation CLIModel.query returns: a parsed
\* response or an error dict; it raises nothing.
StatelessResponses == {"stateless analysis", "stateless error dict"}

\* The call of ModelManager.query: pc is "idle", "in_session" (inside
\* query_in_session) or "done"; had_session is has_session(model) when it
\* began, session_queries and stateless_queries count the calls of
\* query_in_session and of the model's CLI, session_error is the exception
\* query_in_session raised.
ManagerQueryCall(mpc, model, prompt, use_session, had_session, session_queries, stateless_queries, session_error, kind, type, value) ==
    [pc |-> mpc, model |-> model, prompt |-> prompt, use_session |-> use_session,
     had_session |-> had_session, session_queries |-> session_queries,
     stateless_queries |-> stateless_queries, session_error |-> session_error,
     kind |-> kind, type |-> type, value |-> value]

NoManagerQuery == ManagerQueryCall("idle", "", "", FALSE, FALSE, 0, 0, "", "", "", "")

\* `if use_session and self.session_manager and self.session_manager.has_session(model_name)`
UsesSession(model_name, use_session) ==
    use_session /\ mm.session_manager /\ model_name \in DOMAIN sessions

\* `except (SessionQueryError, SessionCreationError)`
FallsBack(type) == type \in {"SessionQueryError", "SessionCreationError"}

\* ModelManager.query(model_name, prompt, use_session) up to the stateless
\* query (which answers `response`) or into query_in_session.
manager_query_begin(model_name, prompt, use_session, response) ==
    LET had == model_name \in DOMAIN sessions
    IN  IF model_name \notin mm.models
        THEN /\ response = "stateless analysis"
             /\ mq' = ManagerQueryCall("done", model_name, prompt, use_session, had, 0, 0,
                                       "", "return", "", "model not available")
             /\ UNCHANGED q
        ELSE IF UsesSession(model_name, use_session)
        THEN /\ response = "stateless analysis"
             /\ mq' = ManagerQueryCall("in_session", model_name, prompt, use_session, had,
                                       1, 0, "", "", "", "")
             /\ q' = query_in_session_begin(model_name, prompt)
        ELSE /\ mq' = ManagerQueryCall("done", model_name, prompt, use_session, had, 0, 1,
                                       "", "return", "", response)
             /\ UNCHANGED q

\* A call of ModelManager.query by the owner of the manager.
ManagerQuery ==
    /\ mq.pc = "idle"
    /\ q.pc = "idle"
    /\ \E model_name \in SessionModels, prompt \in Prompts, use_session \in BOOLEAN,
          response \in StatelessResponses :
         manager_query_begin(model_name, prompt, use_session, response)
    /\ UNCHANGED <<mode, max_retries, sessions, handlers, document, purpose, createCalls,
                   ownerCall, mm>>
    /\ UNCHANGED <<dvars, cvars, tvars, pvars>>

\* query_in_session has ended: ModelManager.query returns its response,
\* falls back to the stateless query, or lets the exception through.
ManagerQueryResume ==
    /\ mq.pc = "in_session"
    /\ q.pc = "done"
    /\ \E response \in StatelessResponses :
         IF q.kind = "return"
         THEN /\ response = "stateless analysis"
              /\ mq' = [mq EXCEPT !.pc = "done", !.kind = "return", !.value = q.value]
         ELSE IF FallsBack(q.type)
         THEN mq' = [mq EXCEPT !.pc = "done", !.session_error = q.type,
                               !.stateless_queries = @ + 1,
                               !.kind = "return", !.value = response]
         ELSE /\ response = "stateless analysis"
              /\ mq' = [mq EXCEPT !.pc = "done", !.session_error = q.type,
                                  !.kind = "raise", !.type = q.type]
    /\ q' = NoQuery
    /\ UNCHANGED <<mode, max_retries, sessions, handlers, document, purpose, createCalls,
                   ownerCall, mm>>
    /\ UNCHANGED <<dvars, cvars, tvars, pvars>>

\* The caller of ModelManager.query takes its result.
ManagerQueryTaken ==
    /\ mq.pc = "done"
    /\ mq' = NoManagerQuery
    /\ UNCHANGED <<mode, max_retries, sessions, handlers, document, purpose, createCalls, q,
                   ownerCall, mm>>
    /\ UNCHANGED <<dvars, cvars, tvars, pvars>>

NextManager ==
    \/ InitSession
    \/ CleanupSessions
    \/ ManagerQuery
    \/ QueryAttempt
    \/ ManagerQueryResume
    \/ ManagerQueryTaken

\* The caller of a query_in_session made directly takes its result.
DirectQueryTaken ==
    /\ mq.pc # "in_session"
    /\ QueryTaken

\* The rest of a run once the sessions are initialised: the manager is
\* queried through ModelManager.query and directly.
NextAfterInit ==
    \/ ManagerQuery
    \/ QueryStart
    \/ QueryAttempt
    \/ ManagerQueryResume
    \/ ManagerQueryTaken
    \/ DirectQueryTaken

\* ------------------------------------------------------------------------
\* DetectionStep: the judge query function over ModelManager.query
\* ------------------------------------------------------------------------

\* The sections of a pass whose judge queries are followed through
\* ModelManager.query.
MaxJudgedSections == 1

\* DetectionStep.judge_model (the default of __init__).
judge_model == "claude"

\* LLMJudgeStrategy._build_comparison_prompt(interpretations)
judge_prompt == "Compare these interpretations"

\* A query function that would let ModelManager.query use the session.
query_func_in_session(prompt, response) ==
    manager_query_begin(judge_model, prompt, TRUE, response)

\* The function _create_judge_query_func returns:
\* self.model_manager.query(self.judge_model, prompt, use_session=False)
query_func(prompt, response) ==
    manager_query_begin(judge_model, prompt, FALSE, response)

\* LLMJudgeStrategy.compare calls the query function for the section at
\* hand.
JudgeQuery ==
    /\ run.state = "detecting"
    /\ pc = "running"
    /\ idx < nSections
    /\ strategy_name = "llm_judge"
    /\ mq.pc = "idle"
    /\ \E response \in StatelessResponses : query_func(judge_prompt, response)
    /\ UNCHANGED <<mode, max_retries, sessions, handlers, document, purpose, createCalls,
                   ownerCall, mm>>
    /\ UNCHANGED <<dvars, cvars, tvars, pvars>>

\* The iteration of detect for a section the judge has answered: the reply
\* carries an error marker exactly when the query returned an error dict.
JudgedSection ==
    /\ mq.pc = "done"
    /\ DetectSection
    /\ last'.called
    /\ IsErrorFlagged(last'.reply[1]) <=> mq.value = "stateless error dict"

\* The iteration of detect for a section with fewer than two valid
\* interpretations: the judge is not asked.
UnjudgedSection ==
    /\ mq.pc = "idle"
    /\ DetectSection
    /\ ~last'.called

\* The result of the judge query is dead once the iteration is over.
JudgeQueryTaken ==
    /\ pc # "running"
    /\ ManagerQueryTaken

NextDetectionStep ==
    \/ JudgeQuery
    \/ JudgedSection
    \/ UnjudgedSection
    \/ JudgeQueryTaken
    \/ NextIteration
    \/ DetectReturn

\* ------------------------------------------------------------------------
\* TestingStep.test_sections and ModelManager.query_all
\* ------------------------------------------------------------------------

\* prompt_gen.create_interpretation_prompt(section), by the section's index.
SectionPrompts ==
    <<"Analyze section 1", "Analyze section 2", "Analyze section 3", "Analyze section 4">>

\* The model lists a testing pass is given.
ModelLists == {<<"claude", "gemini">>, <<"gemini", "claude">>}

\* A response dict as the results keep it: its error marker and its content.
ResponseDict(error, value) == [error |-> error, value |-> value]

\* The dict ModelManager.query returned with `value`.
ResponseOf(value) ==
    ResponseDict(value \in {"stateless error dict", "model not available"}, value)

\* {"error": True, "message": "Model '<name>' not found"}
NotFound == ResponseDict(TRUE, "model not found")

\* The call of test_sections: pc is "idle", "running" (in the loop over the
\* sections), "returned" or "raised"; i is the index of the section of the
\* current iteration, stored the number of entries of test_results; asked
\* lists the queries made so far as (section, model), open those that have
\* not ended.
Testing(tpc, nsections, i, model_names, use_sessions, stored, asked, open, type) ==
    [pc |-> tpc, nsections |-> nsections, i |-> i, model_names |-> model_names,
     use_sessions |-> use_sessions, stored |-> stored, asked |-> asked, open |-> open,
     type |-> type]

NoTesting == Testing("idle", 0, 0, << >>, FALSE, 0, << >>, {}, "")

\* The call of query_all: pc is "idle", "loop" (at the head of the loop over
\* model_names), "querying" (inside self.query), "returned" or "raised"; k
\* is the position of the loop in model_names, calls the calls of
\* self.query that have ended.
QueryAll(apc, prompt, model_names, use_session, k, results, calls, type) ==
    [pc |-> apc, prompt |-> prompt, model_names |-> model_names, use_session |-> use_session,
     k |-> k, results |-> results, calls |-> calls, type |-> type]

NoResults == [x \in {} |-> NotFound]

NoQueryAll == QueryAll("idle", "", << >>, FALSE, 1, NoResults, << >>, "")

\* A query_all that would go through the model list from its end.
NameFromEnd == qa.model_names[Len(qa.model_names) + 1 - qa.k]

\* `for name in model_names`: the name of the current iteration.
Name == qa.model_names[qa.k]

\* One iteration of `for i, section in enumerate(sections)` up to the call
\* of query_all, and query_all up to its loop.
TestSection ==
    /\ ts.pc = "running"
    /\ qa.pc = "idle"
    /\ ts.i < ts.nsections
    /\ qa' = QueryAll("loop", SectionPrompts[ts.i + 1], ts.model_names, ts.use_sessions, 1,
                      NoResults, << >>, "")
    /\ UNCHANGED <<dvars, cvars, pvars, mvars, ts, mode, max_retries, sessions, handlers,
                   document, purpose, createCalls, q, ownerCall>>

\* One iteration of the loop of query_all: the call of self.query for a
\* configured model, the error response for any other name.
QueryAllNext ==
    /\ qa.pc = "loop"
    /\ qa.k <= Len(qa.model_names)
    /\ IF Name \in mm.models
       THEN /\ \E response \in StatelessResponses :
                  manager_query_begin(Name, qa.prompt, qa.use_session, response)
            /\ qa' = [qa EXCEPT !.pc = "querying"]
            /\ ts' = [ts EXCEPT !.asked = Append(@, <<ts.i, Name>>),
                                !.open = @ \cup {<<ts.i, Name>>}]
       ELSE /\ qa' = [qa EXCEPT !.k = @ + 1, !.results = DictSet(@, Name, NotFound)]
            /\ UNCHANGED <<mq, q, ts>>
    /\ UNCHANGED <<dvars, cvars, pvars, mm, mode, max_retries, sessions, handlers,
                   document, purpose, createCalls, ownerCall>>

\* self.query has ended: query_all stores the response, or the exception
\* leaves query_all.
QueryAllTake ==
    /\ qa.pc = "querying"
    /\ mq.pc = "done"
    /\ qa' = IF mq.kind = "return"
             THEN [qa EXCEPT !.pc = "loop", !.k = @ + 1,
                             !.results = DictSet(@, mq.model, ResponseOf(mq.value)),
                             !.calls = Append(@, mq)]
             ELSE [qa EXCEPT !.pc = "raised", !.type = mq.type, !.calls = Append(@, mq)]
    /\ ts' = [ts EXCEPT !.open = @ \ {<<ts.i, mq.model>>}]
    /\ mq' = NoManagerQuery
    /\ UNCHANGED <<dvars, cvars, pvars, mm, mode, max_retries, sessions, handlers,
                   document, purpose, createCalls, q, ownerCall>>

\* `return results`
QueryAllReturn ==
    /\ qa.pc = "loop"
    /\ qa.k > Len(qa.model_names)
    /\ qa' = [qa EXCEPT !.pc = "returned"]
    /\ UNCHANGED <<dvars, cvars, pvars, mvars, ts, mode, max_retries, sessions, handlers,
                   document, purpose, createCalls, q, ownerCall>>

\* The rest of the iteration of test_sections: the results are stored under
\* the section's id, or the exception of query_all leaves test_sections.
TestSectionStore ==
    /\ ts.pc = "running"
    /\ qa.pc \in {"returned", "raised"}
    /\ ts' = IF qa.pc = "returned"
             THEN [ts EXCEPT !.i = @ + 1, !.stored = @ + 1]
             ELSE [ts EXCEPT !.pc = "raised", !.type = qa.type]
    /\ qa' = NoQueryAll
    /\ UNCHANGED <<dvars, cvars, pvars, mvars, mode, max_retries, sessions, handlers,
                   document, purpose, createCalls, q, ownerCall>>

\* `return TestingResult(...)`
TestSectionsReturn ==
    /\ ts.pc = "running"
    /\ qa.pc = "idle"
    /\ ts.i = ts.nsections
    /\ ts' = [ts EXCEPT !.pc = "returned"]
    /\ UNCHANGED <<dvars, cvars, pvars, mvars, qa, mode, max_retries, sessions, handlers,
                   document, purpose, createCalls, q, ownerCall>>

NextTesting ==
    \/ TestSection
    \/ QueryAllNext
    \/ QueryAttempt
    \/ ManagerQueryResume
    \/ QueryAllTake
    \/ QueryAllReturn
    \/ TestSectionStore
    \/ TestSectionsReturn

\* ------------------------------------------------------------------------
\* Specifications
\* ------------------------------------------------------------------------

\* No init_sessions_parallel and no ModelManager in use.
ParallelIdle ==
    /\ par = NoParallel
    /\ workers = << >>

ModelManagerIdle ==
    /\ mm = ModelManager(FALSE, FALSE, {})
    /\ mq = NoManagerQuery

\* No comparison strategy called on its own, no testing pass.
CompareIdle ==
    /\ cmp = NoCompare
    /\ dr = NoDetectionResult
    /\ sp = NoSubprocess

TestingIdle ==
    /\ ts = NoTesting
    /\ qa = NoQueryAll

\* No session manager in use.
SessionsIdle ==
    /\ mode = "auto-recreate"
    /\ max_retries = 1
    /\ sessions = EmptyDict
    /\ handlers = {}
    /\ document = None
    /\ purpose = None
    /\ createCalls = [m \in SessionModels |-> 0]
    /\ q = NoQuery
    /\ ownerCall = NoCall

\* No detection pass in progress.
DetectIdle ==
    /\ caller = ""
    /\ strategy_name = "simple"
    /\ nSections = 0
    /\ idx = 0
    /\ ambiguities = << >>
    /\ pc = "idle"
    /\ exc = NoException
    /\ judgeCalls = 0
    /\ firstMalfunction = 0
    /\ last = NoIteration
    /\ run = Run("idle", "", "", -1, "", FALSE, FALSE, 0)

\* A strategy given a list of interpretations and, for the judge, a reply.
InitCompare ==
    /\ cmp \in {CompareCall("called", "simple", i, << >>, Returned(OnlyOne), << >>) :
                    i \in CompareInputs}
               \cup {CompareCall("called", "llm_judge", i, <<r>>, Returned(OnlyOne), << >>) :
                    i \in CompareInputs, r \in CompareReplies}
               \cup {CompareCall("called", "mock", i, <<r>>, Returned(OnlyOne), << >>) :
                    i \in CompareInputs, r \in {JAgree, JShared}}
    /\ dr = NoDetectionResult
    /\ sp = NoSubprocess
    /\ DetectIdle
    /\ SessionsIdle
    /\ ParallelIdle
    /\ ModelManagerIdle
    /\ TestingIdle
SpecCompare == InitCompare /\ [][NextCompare]_vars

\* The session manager a SessionInitStep hands over: every model of the
\* list has been given the document, and has a session unless its
\* create_session failed with SessionCreationError.
AfterSessionInit(claude_created, gemini_created) ==
    init_session(init_session(Manager(EmptyDict, {}, None, None,
                                      [m \in SessionModels |-> 0]),
                              "claude", "# Document", None, claude_created).M,
                 "gemini", "# Document", None, gemini_created).M

\* A TestingStep at the call of test_sections: without a session manager,
\* or with the one the session initialisation left.
InitTesting ==
    /\ mode \in {"auto-recreate", "fail-fast"}
    /\ max_retries = 1
    /\ \E s \in BOOLEAN, claude_created, gemini_created \in {"ok", "SessionCreationError"},
          models \in {SessionModels, {"claude"}} :
         LET M == IF s THEN AfterSessionInit(claude_created, gemini_created)
                  ELSE Manager(EmptyDict, {}, None, None, [m \in SessionModels |-> 0])
         IN  /\ ~s => claude_created = "ok" /\ gemini_created = "ok"
             /\ mm = ModelManager(s, s, models)
             /\ sessions = M.sessions
             /\ handlers = M.handlers
             /\ document = M.document
             /\ purpose = M.purpose
             /\ createCalls = M.createCalls
    /\ q = NoQuery
    /\ ownerCall = NoCall
    /\ mq = NoManagerQuery
    /\ qa = NoQueryAll
    /\ ts \in {Testing("running", n, 0, model_names, use_sessions, 0, << >>, {}, "") :
                  n \in 0..MaxSections, model_names \in ModelLists, use_sessions \in BOOLEAN}
    /\ DetectIdle
    /\ ParallelIdle
    /\ CompareIdle
SpecTesting == InitTesting /\ [][NextTesting]_vars

\* A CLIModel or a session handler at the call, over any subprocess run.
InitSubprocess ==
    /\ sp \in {Subprocess("called", op, model, proc, NoOutcome, FALSE) :
                  op \in {"query", "create_session", "query_session"},
                  model \in {ModelNames[i] : i \in 1..Len(ModelNames)}, proc \in Runs}
    /\ cmp = NoCompare
    /\ dr = NoDetectionResult
    /\ DetectIdle
    /\ SessionsIdle
    /\ ParallelIdle
    /\ ModelManagerIdle
    /\ TestingIdle
SpecSubprocess == InitSubprocess /\ [][NextSubprocess]_vars

\* A ModelManager over the session manager the session initialisation left.
InitAfterInit ==
    /\ mode \in {"auto-recreate", "fail-fast"}
    /\ max_retries = 1
    /\ \E claude_created, gemini_created \in {"ok", "SessionCreationError"} :
         LET M == AfterSessionInit(claude_created, gemini_created)
         IN  /\ sessions = M.sessions
             /\ handlers = M.handlers
             /\ document = M.document
             /\ purpose = M.purpose
             /\ createCalls = M.createCalls
    /\ mm = ModelManager(TRUE, TRUE, SessionModels)
    /\ q = NoQuery
    /\ ownerCall = NoCall
    /\ mq = NoManagerQuery
    /\ DetectIdle
    /\ ParallelIdle
    /\ CompareIdle
    /\ TestingIdle
SpecAfterInit == InitAfterInit /\ [][NextAfterInit]_vars

\* A DetectionStep with the judge strategy at the call of detect, its
\* ModelManager built without a session config and given the session manager
\* the session initialisation left.
InitDetectionStep ==
    /\ InitDetect
    /\ strategy_name = "llm_judge"
    /\ nSections <= MaxJudgedSections
    /\ mode = "auto-recreate"
    /\ max_retries = 1
    /\ \E claude_created \in {"ok", "SessionCreationError"} :
         LET M == AfterSessionInit(claude_created, "ok")
         IN  /\ sessions = M.sessions
             /\ handlers = M.handlers
             /\ document = M.document
             /\ purpose = M.purpose
             /\ createCalls = M.createCalls
    /\ mm = ModelManager(FALSE, TRUE, SessionModels)
    /\ q = NoQuery
    /\ ownerCall = NoCall
    /\ mq = NoManagerQuery
    /\ ParallelIdle
    /\ CompareIdle
    /\ TestingIdle
SpecDetectionStep == InitDetectionStep /\ [][NextDetectionStep]_vars

\* The detection pass and its callers.
Init == InitDetect /\ SessionsIdle /\ ParallelIdle /\ ModelManagerIdle /\ CompareIdle /\ TestingIdle
Spec == Init /\ [][NextDetect]_vars

\* The session manager.
InitSession0 == InitSessions /\ DetectIdle /\ ParallelIdle /\ ModelManagerIdle /\ CompareIdle /\ TestingIdle
SpecSession == InitSession0 /\ [][NextSessions]_vars

\* A fresh session manager given to init_sessions_parallel, then queried.
InitParallel ==
    /\ InitSessions
    /\ DetectIdle
    /\ ParallelIdle
    /\ ModelManagerIdle
    /\ CompareIdle
    /\ TestingIdle
SpecParallel == InitParallel /\ [][NextParallel]_vars

\* A ModelManager over a session manager with the default max_retries:
\* TestingStep and DetectionStep attach the session manager they are given,
\* whatever session_config says.
InitManager ==
    /\ mode \in {"auto-recreate", "fail-fast"}
    /\ max_retries = 1
    /\ sessions = EmptyDict
    /\ handlers = {}
    /\ document = None
    /\ purpose = None
    /\ createCalls = [m \in SessionModels |-> 0]
    /\ q = NoQuery
    /\ ownerCall = NoCall
    /\ DetectIdle
    /\ ParallelIdle
    /\ mm \in {ModelManager(e, s, models) :
                  e \in BOOLEAN, s \in BOOLEAN, models \in {SessionModels, {"claude"}}}
    /\ mq = NoManagerQuery
    /\ CompareIdle
    /\ TestingIdle
SpecManager == InitManager /\ [][NextManager]_vars

\* ------------------------------------------------------------------------
\* Properties
\* ------------------------------------------------------------------------

\* Text that is empty or whitespace only.
IsBlankText(text) == \A i \in 1..Len(text) : text[i] = " "

\* The iteration just executed handed interpretations to the judge.
JudgeAsked == last.called /\ Len(last.reply) = 1

\* compare raised JudgeFailureError carrying the section's id.
RaisedJudgeFailure ==
    /\ last.outcome.kind = "raise"
    /\ last.outcome.exception.type = "JudgeFailureError"
    /\ last.outcome.exception.section_id = last.section_id

\* C1: when the judge's reply to a comparison of two or more interpretations
\* carries the error marker, LLMJudgeStrategy.compare raises JudgeFailureError
\* with the section id and returns no verdict.
C1_ErrorReplyRaises ==
    (JudgeAsked /\ IsErrorFlagged(last.reply[1])) => RaisedJudgeFailure

\* C2: detect with the judge strategy stops at the first malfunctioning
\* reply: it has raised JudgeFailureError, and the judge has been invoked
\* exactly as many times as the call that malfunctioned.
C2_StopsAtFirstMalfunction ==
    firstMalfunction # 0 =>
        /\ pc = "raised"
        /\ exc.type = "JudgeFailureError"
        /\ judgeCalls = firstMalfunction

\* C3: a judge reply without the error marker that lacks the 'agree' field
\* (such as {"similarity": 0.5} or {}) makes compare raise JudgeFailureError
\* with the section id, never a default verdict or another exception.
C3_MissingAgreeRaises ==
    (JudgeAsked /\ ~IsErrorFlagged(last.reply[1]) /\ "agree" \notin last.reply[1].keys)
        => RaisedJudgeFailure

\* C4: detect never returns a list of ambiguities after a judge reply
\* malfunctioned.
C4_NoResultAfterMalfunction ==
    pc = "returned" => firstMalfunction = 0

\* C5: a run whose judge malfunctioned ends in the judge-failure outcome,
\* carrying the section id, with no ambiguities artifact and no report
\* written, and never as 'no ambiguities found'.
C5_RunEndsInJudgeFailure ==
    (run.state = "finished" /\ firstMalfunction # 0) =>
        /\ run.error_type = "judge_failure"
        /\ run.section_id # -1
        /\ ~run.ambiguities_saved
        /\ ~run.report_saved
        /\ run.outcome # "no_ambiguities_found"

\* C6: no interpretation whose text is empty or whitespace only is handed
\* to the strategy or kept in an Ambiguity's interpretations.
C6_BlankInterpretationsDropped ==
    /\ \A i \in 1..Len(last.compared) : ~IsBlankText(last.compared[i].interpretation)
    /\ \A a \in 1..Len(last.produced) :
         \A i \in 1..Len(last.produced[a].interpretations) :
            ~IsBlankText(last.produced[a].interpretations[i].interpretation)

\* C7: no model whose response carries the error marker is among the
\* compared interpretations, and an Ambiguity's interpretations are exactly
\* the compared models.
C7_ErrorResponsesDropped ==
    /\ \A m \in 1..Len(last.results) :
         last.results[m].error => ModelNames[m] \notin ModelsOf(last.compared)
    /\ \A a \in 1..Len(last.produced) :
         ModelsOf(last.produced[a].interpretations) = ModelsOf(last.compared)

\* The models of a section whose response has no error marker and a
\* non-blank interpretation.
Usable(results) ==
    {m \in 1..Len(results) :
        ~results[m].error /\ ~IsBlankText(Get(results[m], "interpretation", TextEmpty))}

\* C8: for a section with fewer than two usable interpretations the
\* strategy is not invoked and no Ambiguity is produced.
C8_FewerThanTwoUsableSkipped ==
    (Len(last.results) > 0 /\ Cardinality(Usable(last.results)) < 2) =>
        /\ ~last.called
        /\ last.produced = << >>

\* C9: in auto-recreate mode with a remembered document, whatever
\* max_retries is, a finished query_in_session has followed every successful
\* recreation by a query_session on the recreated id with the original prompt.
C9_RecreatedSessionQueried ==
    q.pc = "done" =>
        \A i \in 1..Len(q.calls) :
            (q.calls[i].op = "create_session" /\ q.calls[i].result = "ok") =>
                /\ i < Len(q.calls)
                /\ q.calls[i + 1].op = "query_session"
                /\ q.calls[i + 1].session_id = q.calls[i].session_id
                /\ q.calls[i + 1].prompt = q.prompt

\* A finished query_in_session, begun after one create_session, under
\* auto-recreate with max_retries = 1, whose first query_session lost the
\* session and whose second query_session succeeded.
LostThenAnswered ==
    /\ mode = "auto-recreate"
    /\ max_retries = 1
    /\ q.pc = "done"
    /\ q.created0 = 1
    /\ Len(q.calls) = 3
    /\ q.calls[1].op = "query_session" /\ q.calls[1].result = "SessionLostError"
    /\ q.calls[3].op = "query_session" /\ q.calls[3].result = "ok"

\* C10: with auto-recreate and max_retries = 1, when query_session loses
\* the session on the first call and succeeds on the second,
\* query_in_session returns the second call's result, create_session has
\* been invoked exactly twice, the second query used the recreated id, and
\* the session map holds that id.
C10_LostThenAnsweredReturnsSecond ==
    LostThenAnswered =>
        /\ q.kind = "return"
        /\ q.value = q.calls[3].response
        /\ createCalls[q.model] = 2
        /\ q.calls[2].op = "create_session" /\ q.calls[2].result = "ok"
        /\ q.calls[3].session_id = q.calls[2].session_id
        /\ q.calls[3].session_id = create_session_id(q.model, 2)
        /\ q.calls[3].prompt = q.calls[1].prompt
        /\ q.model \in DOMAIN sessions
        /\ sessions[q.model] = q.calls[2].session_id

C10_Witness ==
    /\ LostThenAnswered
    /\ q.model = "claude"
    /\ q.calls[1].session_id = create_session_id("claude", 1)
    /\ q.value = "analysis 2"

\* The handler calls of the query_in_session in progress that are
\* query_session calls.
QuerySessionCalls == {i \in 1..Len(q.calls) : q.calls[i].op = "query_session"}

\* C11: in fail-fast mode a lost-session signal ends query_in_session at
\* once with SessionLostError: that query_session is its last handler call,
\* create_session has not been invoked since the call began, and the session
\* map is as it was.
C11_FailFastRaisesLost ==
    mode = "fail-fast" =>
        \A i \in 1..Len(q.calls) :
            q.calls[i].result = "SessionLostError" =>
                /\ i = Len(q.calls)
                /\ q.pc = "done"
                /\ q.kind = "raise"
                /\ q.type = "SessionLostError"
                /\ QuerySessionCalls = 1..Len(q.calls)
                /\ createCalls[q.model] = q.created0
                /\ sessions = q.sessions0

C11_Witness ==
    /\ mode = "fail-fast"
    /\ document = "# Document"
    /\ q.pc = "done"
    /\ q.created0 = 1
    /\ Len(q.calls) = 1
    /\ q.calls[1].result = "SessionLostError"
    /\ createCalls[q.model] = 1

\* Every handler call of the query_in_session in progress was a
\* query_session that failed with a generic query error.
OnlyGenericFailures ==
    /\ Len(q.calls) > 0
    /\ \A i \in 1..Len(q.calls) :
         q.calls[i].op = "query_session" /\ q.calls[i].result = "SessionQueryError"

\* C12: when query_session fails with a generic query error on every
\* attempt, a finished query_in_session has invoked it exactly
\* max_retries + 1 times, each time with the same session id and prompt and
\* with the session map unchanged, and raises SessionQueryError; a
\* successful attempt is the last one and its response is what is returned.
C12_RetriesThenRaises ==
    /\ OnlyGenericFailures =>
         /\ Len(q.calls) <= max_retries + 1
         /\ \A i \in 1..Len(q.calls) :
              /\ q.calls[i].session_id = q.sessions0[q.model]
              /\ q.calls[i].prompt = q.prompt
         /\ sessions = q.sessions0
         /\ q.pc = "done" <=> Len(q.calls) = max_retries + 1
         /\ q.pc = "done" => q.kind = "raise" /\ q.type = "SessionQueryError"
    /\ \A i \in QuerySessionCalls :
         q.calls[i].result = "ok" =>
            /\ i = Len(q.calls)
            /\ q.pc = "done"
            /\ q.kind = "return"
            /\ q.value = q.calls[i].response

C12_Witness ==
    /\ max_retries = 2
    /\ OnlyGenericFailures
    /\ q.pc = "done"
    /\ Len(q.calls) = 3

\* C17: query_in_session for a model without an entry in the session map
\* raises SessionQueryError without a handler call and leaves the session
\* map as it was.
C17_NoSessionRaises ==
    (q.pc # "idle" /\ q.model \notin DOMAIN q.sessions0) =>
        /\ q.pc = "done"
        /\ q.kind = "raise"
        /\ q.type = "SessionQueryError"
        /\ q.calls = << >>
        /\ sessions = q.sessions0
        /\ createCalls[q.model] = q.created0

\* After cleanup_sessions, with the model's handler still there.
C17_Witness ==
    /\ q.pc = "done"
    /\ q.model \in handlers
    /\ q.model \notin DOMAIN sessions
    /\ sessions = EmptyDict
    /\ document = None
    /\ createCalls[q.model] > 0
    /\ q.type = "SessionQueryError"

\* C18: recreate_session without a remembered document raises
\* SessionCreationError, invokes no handler and leaves the manager as it
\* was; with one, it drops the model's entry and initialises again with the
\* remembered document and purpose, so that on success the map holds the id
\* just created, and on failure the model has no entry.
C18_RecreateSession ==
    ownerCall.op = "recreate_session" =>
        IF ~TruthyStr(ownerCall.before.document)
        THEN /\ ownerCall.kind = "raise"
             /\ ownerCall.type = "SessionCreationError"
             /\ Self = ownerCall.before
        ELSE /\ createCalls[ownerCall.model] = ownerCall.before.createCalls[ownerCall.model] + 1
             /\ document = ownerCall.before.document
             /\ purpose = ownerCall.before.purpose
             /\ \A m \in SessionModels \ {ownerCall.model} :
                  /\ m \in DOMAIN sessions <=> m \in DOMAIN ownerCall.before.sessions
                  /\ m \in DOMAIN sessions => sessions[m] = ownerCall.before.sessions[m]
             /\ IF ownerCall.kind = "return"
                THEN /\ ownerCall.model \in DOMAIN sessions
                     /\ sessions[ownerCall.model] = ownerCall.value
                     /\ ownerCall.value = create_session_id(ownerCall.model, createCalls[ownerCall.model])
                     /\ (ownerCall.model = "claude" /\ "claude" \in DOMAIN ownerCall.before.sessions)
                            => sessions["claude"] # ownerCall.before.sessions["claude"]
                ELSE ownerCall.model \notin DOMAIN sessions

\* recreate_session after cleanup_sessions, the handler still registered.
C18_WitnessNoDocument ==
    /\ ownerCall.op = "recreate_session"
    /\ ownerCall.before.document = None
    /\ ownerCall.model \in handlers
    /\ ownerCall.type = "SessionCreationError"

\* recreate_session replacing a session of claude.
C18_Witness ==
    /\ ownerCall.op = "recreate_session"
    /\ ownerCall.kind = "return"
    /\ ownerCall.model = "claude"
    /\ "claude" \in DOMAIN ownerCall.before.sessions

\* C19: after cleanup_sessions no model has a session and the remembered
\* document and purpose are unset, whatever the state before; it never
\* fails, and a second cleanup_sessions changes nothing.
C19_CleanupSessions ==
    /\ cleanup_sessions(cleanup_sessions(Self)) = cleanup_sessions(Self)
    /\ ownerCall.op = "cleanup_sessions" =>
         /\ ownerCall.kind = "return"
         /\ sessions = EmptyDict
         /\ document = None
         /\ purpose = None
         /\ handlers = ownerCall.before.handlers
         /\ cleanup_sessions(Self) = Self

\* cleanup_sessions called twice in a row.
C19_Witness ==
    /\ ownerCall.op = "cleanup_sessions"
    /\ ownerCall.before.sessions = EmptyDict
    /\ ownerCall.before.document = None
    /\ ownerCall.before.handlers # {}

\* The workers whose create_session returned an identifier.
Succeeded == {m \in DOMAIN workers : workers[m].pc = "done" /\ workers[m].kind = "return"}

\* C14: init_sessions_parallel never fails as a whole: whatever makes a
\* model's creation fail, the call returns, the failed models are absent
\* from the returned map and the others are present with their ids.
C14_ParallelInitReturns ==
    /\ par.pc \notin {"unwinding", "raised"}
    /\ par.pc = "returned" =>
         /\ DOMAIN par.results = Succeeded
         /\ \A m \in Succeeded : par.results[m] = workers[m].value

\* C15: init_sessions_parallel has ended only when every worker has stored
\* its session or failed, and no query_in_session is in progress while a
\* worker is still running.
C15_InitIsBarrier ==
    /\ par.pc \in {"returned", "raised"} =>
         \A m \in par.model_names : workers[m].pc = "done"
    /\ q.pc # "idle" =>
         \A m \in DOMAIN workers : workers[m].pc = "done"

\* A query in a session made by one of two workers.
C15_Witness ==
    /\ par.pc = "returned"
    /\ {"claude", "gemini"} \subseteq Succeeded
    /\ q.pc = "loop"
    /\ q.model = "gemini"

\* No create_session has been made but by the workers.
CreatedByWorkersOnly ==
    \A m \in SessionModels :
        createCalls[m] = IF m \in DOMAIN workers /\ workers[m].pc = "done" THEN 1 ELSE 0

\* C16: under every interleaving of the workers, the session map holds
\* exactly the entries of the workers whose creation succeeded, each the id
\* its own create_session returned, the handlers are those of the workers
\* that began, and the map returned equals the session map.
C16_WorkersWriteOwnEntries ==
    (par.pc # "idle" /\ CreatedByWorkersOnly) =>
        /\ DOMAIN sessions = Succeeded
        /\ \A m \in Succeeded :
             /\ sessions[m] = workers[m].value
             /\ sessions[m] = create_session_id(m, 1)
        /\ handlers = {m \in DOMAIN workers \cap SessionModels : workers[m].pc # "submitted"}
        /\ par.pc = "returned" => par.results = sessions

C16_Witness ==
    /\ par.pc = "returned"
    /\ CreatedByWorkersOnly
    /\ par.model_names = SessionModels
    /\ DOMAIN par.results = {"claude", "gemini"}
    /\ par.results["claude"] # par.results["gemini"]

\* C13: ModelManager.query lets no failure of the session layer through:
\* when query_in_session raised, whatever it raised, the call has made
\* exactly one stateless invocation and returns its response.
C13_SessionFailureFallsBack ==
    (mq.pc = "done" /\ mq.session_error # "") =>
        /\ mq.kind = "return"
        /\ mq.stateless_queries = 1
        /\ mq.value \in StatelessResponses

\* Sessions are disabled or absent for the ModelManager.query in progress.
SessionsOff ==
    \/ ~mm.sessions_enabled
    \/ ~mq.use_session
    \/ ~mm.session_manager
    \/ ~mq.had_session

\* C20: with sessions disabled in the configuration, or use_session false,
\* or no session manager, or no live session for the model,
\* ModelManager.query of an available model never calls query_in_session and
\* ends with exactly one stateless invocation.
C20_StatelessWhenSessionsOff ==
    (mq.pc # "idle" /\ mq.model \in mm.models /\ SessionsOff) =>
        /\ mq.session_queries = 0
        /\ mq.pc = "done"
        /\ mq.kind = "return"
        /\ mq.stateless_queries = 1

\* ------------------------------------------------------------------------
\* Severity and the comparison results
\* ------------------------------------------------------------------------

\* The comparison a call of compare returned.
Compared == cmp.outcome.comparison

\* The severity band of a similarity n/d: the boundaries 0.3, 0.5 and 0.7
\* belong to the band above them.
SeverityBand(similarity) ==
    IF 10 * similarity.n < 3 * similarity.d THEN "critical"
    ELSE IF 10 * similarity.n < 5 * similarity.d THEN "high"
    ELSE IF 10 * similarity.n < 7 * similarity.d THEN "medium"
    ELSE "low"

\* C23: when the comparison reports disagreement, the Ambiguity is critical
\* if the models split into three or more groups, and otherwise has the
\* severity of the band of the similarity: critical below 0.3, high in
\* [0.3, 0.5), medium in [0.5, 0.7), low from 0.7 on.
C23_SeverityOfDisagreement ==
    (cmp.pc = "decided" /\ ~Compared.agree) =>
        /\ Len(cmp.produced) = 1
        /\ cmp.produced[1].severity =
               IF Len(Compared.groups) >= 3 THEN "critical"
               ELSE SeverityBand(Compared.similarity)

\* A disagreement of two models at similarity 0.3 exactly is high.
C23_Witness ==
    /\ cmp.pc = "decided"
    /\ ~Compared.agree
    /\ Len(Compared.groups) = 2
    /\ Compared.similarity = Rat(3, 10)
    /\ Len(cmp.produced) = 1
    /\ cmp.produced[1].severity = "high"

\* C24: when the comparison reports agreement and flags shared ambiguities,
\* detect emits exactly one Ambiguity for the section, with the reason that
\* the models agreed but all noted similar concerns, carrying the list of
\* shared concerns, of severity low for two models and medium for three or
\* more.
C24_SharedAmbiguitiesFlagged ==
    (/\ cmp.pc = "decided"
     /\ Compared.agree
     /\ Get(Compared, "shared_ambiguities", FALSE)) =>
        /\ Len(cmp.produced) = 1
        /\ cmp.produced[1].reason = "Models agreed but all noted similar concerns"
        /\ Get(cmp.produced[1].comparison_details, "shared_concerns", << >>)
               = Compared.shared_concerns
        /\ cmp.produced[1].severity =
               IF Len(cmp.interpretations) >= 3 THEN "medium" ELSE "low"

\* A comparison that carries a shared-assumption or shared-ambiguity flag.
Flagged(comparison) ==
    \/ Get(comparison, "assumptions_made", << >>) # << >>
    \/ Get(comparison, "shared_ambiguities", FALSE)

\* The Ambiguities of `ambiguities` that belong to a section.
AmbiguitiesOf(section_id) ==
    {k \in 1..Len(ambiguities) : ambiguities[k].section_id = section_id}

\* C25: a section yields an Ambiguity only if its comparison reported
\* disagreement, or agreement together with a shared-assumption or
\* shared-ambiguity flag; agreement without a flag yields none; and no
\* section yields more than one.
C25_AmbiguityOnlyOnDisagreement ==
    /\ \A section_id \in 0..MaxSections : Cardinality(AmbiguitiesOf(section_id)) <= 1
    /\ pc = "iterated" =>
          /\ Len(last.produced) <= 1
          /\ Cardinality(AmbiguitiesOf(last.section_id)) = Len(last.produced)
          /\ last.produced # << >> =>
                /\ last.called
                /\ last.outcome.kind = "return"
                /\ \/ ~last.outcome.comparison.agree
                   \/ last.outcome.comparison.agree /\ Flagged(last.outcome.comparison)
          /\ (/\ last.called
              /\ last.outcome.comparison.agree
              /\ ~Flagged(last.outcome.comparison)) => last.produced = << >>

\* The second section's models agree without a flag and the section yields
\* nothing, after a first section that yielded an Ambiguity.
C25_Witness ==
    /\ pc = "iterated"
    /\ last.section_id = 1
    /\ last.called
    /\ last.outcome.comparison.agree
    /\ ~Flagged(last.outcome.comparison)
    /\ last.produced = << >>
    /\ Len(ambiguities) = 1
    /\ ambiguities[1].section_id = 0

\* The place of a severity in the order critical > high > medium > low.
SeverityRank(severity) ==
    CHOOSE k \in 1..4 : <<"critical", "high", "medium", "low">>[k] = severity

\* C26: in the list detect returns no Ambiguity is preceded by one of
\* strictly lower severity, and Ambiguities of equal severity are in the
\* order in which their sections were processed.
C26_SortedBySeverity ==
    pc = "returned" =>
        \A i, j \in 1..Len(ambiguities) :
            i < j =>
                /\ SeverityRank(ambiguities[i].severity) <= SeverityRank(ambiguities[j].severity)
                /\ ambiguities[i].severity = ambiguities[j].severity =>
                       ambiguities[i].section_id < ambiguities[j].section_id

\* detect returned the Ambiguity of the second section before the less
\* severe one of the first.
C26_Witness ==
    /\ pc = "returned"
    /\ Len(ambiguities) = 2
    /\ ambiguities[1].section_id = 1
    /\ ambiguities[2].section_id = 0
    /\ SeverityRank(ambiguities[1].severity) < SeverityRank(ambiguities[2].severity)

\* A strategy of the program (not the tests' mock) has returned a comparison
\* of two or more interpretations.
StrategyReturned ==
    /\ cmp.pc \in {"compared", "decided"}
    /\ cmp.strategy \in {"simple", "llm_judge"}
    /\ cmp.outcome.kind = "return"

\* C27: every comparison result either strategy returns for two or more
\* interpretations has a similarity within [0, 1], whatever similarity the
\* judge put in its reply.
C27_SimilarityInUnitInterval ==
    (StrategyReturned /\ Len(cmp.interpretations) >= 2) =>
        /\ 0 <= Compared.similarity.n
        /\ Compared.similarity.n <= Compared.similarity.d

\* The places at which a model name occurs in a list of groups.
PlacesOf(model, groups) ==
    {<<g, k>> \in (1..Len(groups)) \X (1..Len(ModelNames)) :
        k <= Len(groups[g]) /\ groups[g][k] = model}

\* C28: in every comparison result either strategy returns, the groups
\* partition the model names of the interpretations it was given: every
\* model is in exactly one group, no group is empty and no group names
\* another model.
C28_GroupsPartitionModels ==
    StrategyReturned =>
        /\ \A g \in 1..Len(Compared.groups) :
               /\ Compared.groups[g] # << >>
               /\ SeqToSet(Compared.groups[g]) \subseteq ModelsOf(cmp.interpretations)
        /\ \A model \in ModelsOf(cmp.interpretations) :
               Cardinality(PlacesOf(model, Compared.groups)) = 1

\* The sum of the similarities of the pairs (i, j) of a list of interpretations.
RECURSIVE PairSum(_, _)
PairSum(pairs, interpretations) ==
    IF pairs = {} THEN Rat(0, 1)
    ELSE LET p == CHOOSE x \in pairs : TRUE
         IN  RatAdd(_calculate_similarity(Element(interpretations[p[1]]),
                                          Element(interpretations[p[2]])),
                    PairSum(pairs \ {p}, interpretations))

\* The average pairwise similarity of two or more interpretations.
AveragePairwise(interpretations) ==
    LET pairs == {p \in (1..Len(interpretations)) \X (1..Len(interpretations)) : p[1] < p[2]}
    IN  RatDivInt(PairSum(pairs, interpretations), Cardinality(pairs))

\* A model of the list stated an assumption.
SomeAssumption(interpretations) ==
    \E k \in 1..Len(interpretations) : interpretations[k].assumptions # << >>

\* C30: the simple strategy reports disagreement exactly when the average
\* pairwise similarity is below the threshold or a compared model stated an
\* assumption, and agreement exactly when the average is at or above the
\* threshold and no model stated one.
C30_SimpleAgreement ==
    (StrategyReturned /\ cmp.strategy = "simple" /\ Len(cmp.interpretations) >= 2) =>
        /\ Compared.similarity = AveragePairwise(cmp.interpretations)
        /\ ~Compared.agree <=>
               \/ RatLT(AveragePairwise(cmp.interpretations), similarity_threshold)
               \/ SomeAssumption(cmp.interpretations)

\* Identical interpretations, one with an assumption: the average is 1 and
\* the strategy reports disagreement.
C30_Witness ==
    /\ StrategyReturned
    /\ cmp.strategy = "simple"
    /\ Len(cmp.interpretations) = 2
    /\ AveragePairwise(cmp.interpretations) = Rat(1, 1)
    /\ SomeAssumption(cmp.interpretations)
    /\ ~Compared.agree

\* ------------------------------------------------------------------------
\* Sessions and the vendors that issued them
\* ------------------------------------------------------------------------

\* create_session of the model's handler has returned this identifier.
IssuedTo(session_id, model_name) ==
    /\ session_id.issuer = model_name
    /\ \E n \in 1..createCalls[model_name] : session_id = create_session_id(model_name, n)

\* C29: after any sequence of init, query, recreate and cleanup calls the
\* session map holds for each model name at most one session id, issued by
\* that model's handler, and every session id handed to query_session was
\* issued by create_session of the handler of the model being queried.
C29_SessionsStayWithTheirVendor ==
    /\ DOMAIN sessions \subseteq SessionModels
    /\ \A model_name \in DOMAIN sessions :
           /\ model_name \in handlers
           /\ IssuedTo(sessions[model_name], model_name)
    /\ \A k \in 1..Len(q.calls) :
           q.calls[k].op = "query_session" => IssuedTo(q.calls[k].session_id, q.model)

\* With sessions of both vendors alive, claude's recreated session is queried.
C29_Witness ==
    /\ DOMAIN sessions = SessionModels
    /\ q.model = "claude"
    /\ \E k \in 1..Len(q.calls) :
           /\ q.calls[k].op = "query_session"
           /\ q.calls[k].session_id = SessionId("claude", 2)

\* ------------------------------------------------------------------------
\* The testing pass
\* ------------------------------------------------------------------------

\* The calls of ModelManager.query that query_all made for a name.
CallsFor(name) == {k \in 1..Len(qa.calls) : qa.calls[k].model = name}

\* C21: query_all returns a map with exactly one entry for every requested
\* name: a configured model's entry is the response of the one query made
\* for it, with query_all's prompt; any other name's entry is an error
\* response, no query being made for it; and query_all does not raise.
C21_QueryAllAnswersEveryName ==
    qa.pc \in {"returned", "raised"} =>
        /\ qa.pc = "returned"
        /\ DOMAIN qa.results = SeqToSet(qa.model_names)
        /\ \A name \in SeqToSet(qa.model_names) :
               IF name \in mm.models
               THEN /\ Cardinality(CallsFor(name)) = 1
                    /\ \A k \in CallsFor(name) :
                           /\ qa.calls[k].prompt = qa.prompt
                           /\ qa.calls[k].kind = "return"
                           /\ qa.calls[k].session_queries + qa.calls[k].stateless_queries >= 1
                           /\ qa.results[name] = ResponseOf(qa.calls[k].value)
               ELSE /\ CallsFor(name) = {}
                    /\ qa.results[name].error

\* The models of the list that are configured, in the order of the list.
ConfiguredOf(model_names) ==
    LET IsConfigured(name) == name \in mm.models
    IN  SelectSeq(model_names, IsConfigured)

\* C22: the testing pass queries in the order of the sections and, within
\* a section, of the model list; a query of a section starts only when every
\* query of the sections before it has ended; and at most one query is in
\* flight, so never two against one session.
C22_TestingIsSequential ==
    LET configured == ConfiguredOf(ts.model_names)
    IN  /\ Len(ts.asked) <= ts.nsections * Len(configured)
        /\ \A j \in 1..Len(ts.asked) :
               ts.asked[j] = <<(j - 1) \div Len(configured),
                               configured[((j - 1) % Len(configured)) + 1]>>
        /\ Cardinality(ts.open) <= 1
        /\ \A query \in ts.open : query = ts.asked[Len(ts.asked)] /\ query[1] = ts.i
        /\ q.pc # "idle" => ts.open = {<<ts.i, q.model>>}

\* Two sections have been tested with two models, every query in a session.
C22_Witness ==
    /\ ts.pc = "returned"
    /\ ts.stored = 2
    /\ ts.asked = <<<<0, "gemini">>, <<0, "claude">>, <<1, "gemini">>, <<1, "claude">>>>
    /\ DOMAIN sessions = SessionModels
    /\ ts.use_sessions

\* ------------------------------------------------------------------------
\* DetectionResult.save then DetectionResult.load
\* ------------------------------------------------------------------------

\* The content the two records share: ids, header, content, severity and,
\* model by model in the same order, text, steps, assumptions, ambiguities.
SameContent(a, b) ==
    /\ a.section_id = b.section_id
    /\ a.section_header = b.section_header
    /\ a.section_content = b.section_content
    /\ a.severity = b.severity
    /\ Len(a.interpretations) = Len(b.interpretations)
    /\ \A j \in 1..Len(a.interpretations) :
          /\ a.interpretations[j].model_name = b.interpretations[j].model_name
          /\ a.interpretations[j].interpretation = b.interpretations[j].interpretation
          /\ a.interpretations[j].steps = b.interpretations[j].steps
          /\ a.interpretations[j].assumptions = b.interpretations[j].assumptions
          /\ a.interpretations[j].ambiguities = b.interpretations[j].ambiguities

\* C31: a list of Ambiguity records that detect returned, saved with
\* DetectionResult.save and read back with DetectionResult.load, comes back
\* with as many records in the same order, each with the section id, header,
\* content and severity it had and, for every model, the interpretation
\* text, steps, assumptions and noted ambiguities it had.
C31_SaveLoadRoundTrip ==
    dr.pc = "loaded" =>
        /\ Len(dr.loaded) = Len(dr.ambiguities)
        /\ \A k \in 1..Len(dr.ambiguities) : SameContent(dr.ambiguities[k], dr.loaded[k])

\* Two records of different severities, the later section first, with steps
\* and assumptions among the interpretations, have been saved and loaded.
C31_Witness ==
    /\ dr.pc = "loaded"
    /\ Len(dr.ambiguities) = 2
    /\ dr.ambiguities[1].section_id = 1
    /\ dr.ambiguities[1].severity # dr.ambiguities[2].severity
    /\ dr.ambiguities[1].section_header = "Unknown"
    /\ \E j \in 1..Len(dr.ambiguities[1].interpretations) :
          dr.ambiguities[1].interpretations[j].steps # << >>
    /\ \E j \in 1..Len(dr.ambiguities[2].interpretations) :
          dr.ambiguities[2].interpretations[j].assumptions # << >>

\* ------------------------------------------------------------------------
\* CLIModel.query over its subprocess
\* ------------------------------------------------------------------------

\* The subprocess of the call failed: it raised, or exited non-zero.
RunFailed == sp.proc.kind # "completed" \/ sp.proc.returncode # 0

\* The stdout of the call is not JSON, with or without a markdown fence.
NotJson ==
    /\ ~json_loads(sp.proc.stdout).ok
    /\ ~json_loads(_strip_markdown_code_blocks(sp.proc.stdout)).ok

\* C32: CLIModel.query never raises; when its subprocess times out, is not
\* found, fails in any other way or exits non-zero, it returns a response
\* with error true, and detect leaves the interpretation made of that
\* response out of the comparison; when the process exits zero with output
\* that is not JSON even without its markdown fence, it returns the raw-text
\* response (error false, raw_response).
C32_StatelessQueryNeverFatal ==
    (sp.op = "query" /\ sp.pc \in {"done", "filtered"}) =>
        /\ sp.outcome.kind = "return"
        /\ RunFailed =>
              /\ Get(sp.outcome.value, "error", FALSE) = TRUE
              /\ sp.pc = "filtered" => ~sp.kept
        /\ (~RunFailed /\ NotJson) =>
              /\ Get(sp.outcome.value, "error", TRUE) = FALSE
              /\ "raw_response" \in sp.outcome.value.keys

\* ------------------------------------------------------------------------
\* The session handlers over their subprocess
\* ------------------------------------------------------------------------

SeparateAgainstExpanded ==
    /\ cmp.strategy = "simple"
    /\ cmp.interpretations =
          <<from_response("claude", RSeparate), from_response("gemini", RExpanded)>>

\* C33: under the simple strategy at threshold 0.7, "Create 3 separate
\* entries" (claude) against "Create one entry expanded to N cards" (gemini,
\* with an assumption and a noted ambiguity) compare with a similarity below
\* 0.5 and agree false, and detect appends exactly one Ambiguity for the
\* section, of severity high.
C33_SeparateAgainstExpandedIsHigh ==
    SeparateAgainstExpanded =>
        /\ cmp.pc \in {"compared", "decided"} =>
              /\ cmp.outcome.kind = "return"
              /\ RatLT(cmp.outcome.comparison.similarity, Rat(5, 10))
              /\ ~cmp.outcome.comparison.agree
        /\ cmp.pc = "decided" =>
              /\ Len(cmp.produced) = 1
              /\ cmp.produced[1].severity = "high"

\* detect has decided on that section.
C33_Witness ==
    /\ SeparateAgainstExpanded
    /\ cmp.pc = "decided"
    /\ cmp.outcome.comparison.similarity = Rat(31, 80)

\* Two interpretations with the same keywords, no assumptions and no noted
\* ambiguities, under the simple strategy.
SameKeywordsNothingNoted ==
    /\ cmp.strategy = "simple"
    /\ Len(cmp.interpretations) = 2
    /\ _extract_keywords(cmp.interpretations[1].interpretation)
          = _extract_keywords(cmp.interpretations[2].interpretation)
    /\ \A k \in 1..2 : /\ cmp.interpretations[k].assumptions = << >>
                        /\ cmp.interpretations[k].ambiguities = << >>

\* C34: under the simple strategy at threshold 0.7, two interpretations
\* with identical keyword sets, no assumptions and no noted ambiguities are
\* reported with agree true whatever their numbers of steps, and detect
\* appends no Ambiguity for the section.
C34_SameKeywordsAgree ==
    SameKeywordsNothingNoted =>
        /\ cmp.pc \in {"compared", "decided"} =>
              /\ cmp.outcome.kind = "return"
              /\ cmp.outcome.comparison.agree
        /\ cmp.pc = "decided" => cmp.produced = << >>

\* The same text with no steps from one model and two steps from the other
\* (similarity exactly 0.7) has been decided.
C34_Witness ==
    /\ SameKeywordsNothingNoted
    /\ cmp.pc = "decided"
    /\ Len(cmp.interpretations[1].steps) # Len(cmp.interpretations[2].steps)
    /\ cmp.interpretations[1].interpretation # TextBlank
    /\ cmp.outcome.comparison.similarity = Rat(7, 10)

\* ------------------------------------------------------------------------
\* The judge strategy on a reply that carries a verdict
\* ------------------------------------------------------------------------

\* The judge was asked about two or more interpretations and its reply has
\* the key 'agree' and no error marker.
JudgeGaveVerdict ==
    /\ cmp.strategy = "llm_judge"
    /\ cmp.pc \in {"compared", "decided"}
    /\ Len(cmp.interpretations) >= 2
    /\ "agree" \in cmp.reply[1].keys
    /\ ~Get(cmp.reply[1], "error", FALSE)

\* C36: when the judge's reply has the key 'agree' and no error marker,
\* compare does not raise; the verdict it returns has the reply's agree and,
\* when the reply gives one, the reply's similarity, whether agree is true
\* or false; and when the reply has no shared_ambiguities or shared_concerns
\* the verdict has shared_ambiguities false and shared_concerns empty.
C36_VerdictIsTheJudgesOwn ==
    JudgeGaveVerdict =>
        /\ cmp.outcome.kind = "return"
        /\ cmp.outcome.comparison.agree = cmp.reply[1].agree
        /\ "similarity" \in cmp.reply[1].keys =>
              cmp.outcome.comparison.similarity = cmp.reply[1].similarity
        /\ "shared_ambiguities" \notin cmp.reply[1].keys =>
              /\ "shared_ambiguities" \in cmp.outcome.comparison.keys
              /\ cmp.outcome.comparison.shared_ambiguities = FALSE
        /\ "shared_concerns" \notin cmp.reply[1].keys =>
              /\ "shared_concerns" \in cmp.outcome.comparison.keys
              /\ cmp.outcome.comparison.shared_concerns = << >>

\* ------------------------------------------------------------------------
\* The work of one query_in_session
\* ------------------------------------------------------------------------

\* The calls of the handler's `op` the query_in_session in progress has made.
HandlerCalls(op) == Cardinality({k \in 1..Len(q.calls) : q.calls[k].op = op})

\* C37: in one call of query_in_session, whatever the handler answers, the
\* handler's query_session has been called at most max_retries + 1 times
\* and its create_session at most max_retries + 1 times; while the call is
\* in its loop every query_session so far has failed and been counted in
\* `retries`, which has not passed max_retries, so each further attempt
\* either ends the call or uses up one of the attempts left; and a call
\* that has ended has returned a response or raised.
C37_QueryInSessionIsBounded ==
    /\ HandlerCalls("query_session") <= max_retries + 1
    /\ HandlerCalls("create_session") <= max_retries + 1
    /\ HandlerCalls("create_session") <= HandlerCalls("query_session")
    /\ q.pc = "loop" =>
          /\ q.retries <= max_retries
          /\ HandlerCalls("query_session") = q.retries
    /\ q.pc = "done" => q.kind \in {"return", "raise"}

\* A call has used every attempt: max_retries + 1 queries, each answered by
\* a lost session and followed by a recreation, with max_retries at least 1.
C37_Witness ==
    /\ q.pc = "done"
    /\ max_retries >= 1
    /\ HandlerCalls("query_session") = max_retries + 1
    /\ HandlerCalls("create_session") = max_retries + 1
    /\ q.kind = "raise"

\* ------------------------------------------------------------------------
\* A recreation that fails inside query_in_session
\* ------------------------------------------------------------------------

\* The query_in_session in progress has just ended on a create_session that
\* raised.
RecreationFailed ==
    /\ q.pc = "done"
    /\ q.calls # << >>
    /\ q.calls[Len(q.calls)].op = "create_session"
    /\ q.calls[Len(q.calls)].result # "ok"

\* The model of the call has no entry, and every other model has the entry
\* it had when the call began.
DroppedAlone ==
    /\ q.model \notin DOMAIN sessions
    /\ \A m \in SessionModels \ {q.model} :
          /\ m \in DOMAIN sessions <=> m \in DOMAIN q.sessions0
          /\ m \in DOMAIN sessions => sessions[m] = q.sessions0[m]

\* C38: when a recreation inside query_in_session fails, the model's entry
\* is gone from the session map and the other models' entries are as they
\* were; from then on the entry stays absent, a query_in_session begun for
\* the model raises SessionQueryError at once without a handler call, and a
\* ModelManager.query begun for it makes one stateless query and no session
\* query.
C38_FailedRecreationDropsSession ==
    [][/\ RecreationFailed' => DroppedAlone'
       /\ \A m \in SessionModels :
             m \notin DOMAIN sessions =>
                /\ m \notin DOMAIN sessions'
                /\ (q.pc = "idle" /\ q'.pc # "idle" /\ q'.model = m) =>
                      /\ q'.pc = "done"
                      /\ q'.kind = "raise"
                      /\ q'.type = "SessionQueryError"
                      /\ q'.calls = << >>
                /\ (mq.pc = "idle" /\ mq'.pc # "idle" /\ mq'.model = m) =>
                      /\ mq'.pc = "done"
                      /\ mq'.session_queries = 0
                      /\ mq'.stateless_queries = 1
                      /\ q' = q]_vars

\* claude's session was created at initialisation, a recreation of it has
\* failed since (a second create_session, no entry), gemini still has its
\* session, and a later ModelManager.query for claude with use_session has
\* gone to the stateless path.
C38_Witness ==
    /\ createCalls["claude"] = 2
    /\ "claude" \notin DOMAIN sessions
    /\ "gemini" \in DOMAIN sessions
    /\ mq.pc = "done"
    /\ mq.model = "claude"
    /\ mq.use_session
    /\ ~mq.had_session
    /\ mq.session_queries = 0
    /\ mq.stateless_queries = 1

\* ------------------------------------------------------------------------
\* The judge queries of a detection pass
\* ------------------------------------------------------------------------

\* C39: in a detection pass with the judge strategy every query of the
\* judge model is made with use_session false and answered by one stateless
\* query, with no session query, also when the judge model has a live
\* session; no step of the pass starts a query_in_session, and none changes
\* the session map or calls create_session.
C39_JudgeQueriesAreStateless ==
    [][/\ mq'.pc # "idle" =>
             /\ mq'.model = judge_model
             /\ ~mq'.use_session
             /\ mq'.pc = "done"
             /\ mq'.session_queries = 0
             /\ mq'.stateless_queries = 1
       /\ q' = NoQuery
       /\ sessions' = sessions
       /\ createCalls' = createCalls]_vars

\* The judge model has a live session, and the section just compared was
\* judged through one stateless query.
C39_Witness ==
    /\ judge_model \in DOMAIN sessions
    /\ pc = "iterated"
    /\ last.called
    /\ mq.pc = "done"
    /\ mq.had_session
    /\ mq.stateless_queries = 1
    /\ mq.session_queries = 0


====
